---- MODULE Spec2Model ----
(***************************************************************************)
(* Model of the ingestion route of haru235/ai-chatbot (the route source is *)
(* the code part of src/README.md, lines 80-452): the chunker, the         *)
(* document generators, the fetcher and the streaming POST handler; and of *)
(* the chat route, src/app/api/chat/route.js.                              *)
(*                                                                         *)
(* Strings are sequences of one-character strings.  Inside the chunker a   *)
(* string is a sequence of cells: a cell p > 0 is the character text[p] of *)
(* the chunker's input, the cell 0 is a space the chunker inserted itself. *)
(* Every string operation of the code (trim, slice, lastIndexOf, split,    *)
(* concatenation) is applied to the cells, so a chunk keeps the input      *)
(* positions of its characters.                                            *)
(***************************************************************************)
EXTENDS Integers, Sequences, FiniteSets, TLC

VARIABLES
    \* ---- chunker run (SpecChunk)
    cpc,          \* "input" before the call, "done" after it
    text,         \* argument text
    maxSize,      \* argument maxSize
    overlap,      \* argument overlap, as passed by the caller
    documents,    \* returned array of chunks (cells)
    loops,        \* iterations the call made: [hard |-> n, seed |-> m]
    \* ---- ingestion requests (Spec); every one but store is per request
    store,          \* the documents table: records [id, content, source, by]
    pc,             \* position of the handler
    req,            \* the parsed body [text, isUrl, userName, userId]
    existing,       \* existingDocs of deleteExistingDocuments, as ids
    attempt,        \* attempt of the running fetchWebContent
    totalDocuments, \* totalDocuments
    documentCount,  \* documentCount
    gen,            \* documents the second pass has still to take
    error,          \* message of the error on its way to the handler's catch
    events,         \* lines enqueued on the response stream, in order
    closed,         \* number of controller.close() calls made
    cancelled,      \* the caller has cancelled the response stream
    \* ---- history of a request, read by the properties only
    pass,           \* the documents the second pass was given
    outcome,        \* per document of the second pass, what became of it
    before,         \* the requests that had ended when this one began
    \* ---- one run of generateDocumentsFromUrl (SpecUrl)
    upc,          \* "input", "loop" (in the for loop), "done"
    uhtml,        \* the body fetchWebContent returned
    ucontent,     \* elements of processedContent not yet taken
    ust,          \* [yielded, headingStack, currentDocument, isNewSection]
    uunder,       \* history: heading stacks under which the text now in
                  \* currentDocument was added
    \* ---- one call of fetchWebContent (SpecFetch)
    fpc,          \* "input", "try" (at axios.get), "wait", "returned", "thrown"
    fmax,         \* argument maxRetries
    fdelay,       \* argument retryDelay
    fattempt,     \* attempt
    fresult,      \* what the call returned or threw
    fgets,        \* history: number of axios.get calls made
    fwaited,      \* history: the delays waited, in order
    ffailed,      \* history: the messages of the failed attempts, in order
    \* ---- one chat request (SpecChat)
    chatPc,        \* "input", "embed", "rpc", "open", "read", "done"
    chatReq,       \* the request body, parsed or not
    chatTable,     \* the documents table as the query sees it
    rpcArgs,       \* the arguments match_documents was called with
    chatDocuments, \* documents, the rows match_documents answered
    chatEvents,    \* lines enqueued on the response stream, in order
    chatClosed,    \* number of controller.close() calls made
    deltas,        \* history: the chunks the completion stream delivered
    calls,          \* history: the calls made to the services, each with the
                   \* number of lines enqueued before it
    \* ---- one run of generateDocumentsFromText (SpecText)
    tpc,          \* "input", "loop" (in the for loop), "done"
    tin,          \* the arguments [text, userName]
    tlines,       \* the lines of text not yet taken
    tst,           \* [yielded, currentDocument]
    \* ---- the page's reader of one chat response (SpecReader)
    rdPc,              \* "idle", "reading" (in the while loop), "done", "failed"
    sent,              \* the lines the route enqueued, as events
    rdBody,            \* the response body: the text of these lines
    rdPos,             \* characters of the response body read so far
    assistantResponse, \* assistantResponse
    contextUsed,       \* contextUsed, as the parsed value
    assistantMessage,  \* content of the assistant message in Firestore
    arrivedWhole,       \* history: the lines of sent whose text lay within
                       \* one read
    \* ---- one call of the page's handleAddContext (SpecAdd)
    addPc,        \* "idle", "call", "fetch", "reading", "done"
    addIn,        \* history: the form at the call, the answer of
                  \* isValidHttpUrl and the answer the fetch will get
    newContext,   \* newContext
    isUrl,        \* isUrl
    isLoading,    \* isLoading
    addingContextProgress, \* addingContextProgress, as the parsed value
    addBody,      \* the body of the response
    addPos,       \* characters of the body read so far
    alerts,       \* the alerts raised, each with the place of its throw
    caught        \* the errors the per-line catch logged, each with the
                  \* place of its throw

chunkVars == <<cpc, text, maxSize, overlap, documents, loops>>

ingestVars == <<store, pc, req, existing, attempt, totalDocuments, documentCount,
                gen, error, events, closed, cancelled, pass, outcome, before>>

urlVars == <<upc, uhtml, ucontent, ust, uunder>>

fetchVars == <<fpc, fmax, fdelay, fattempt, fresult, fgets, fwaited, ffailed>>

\* The variables of the runs that stand beside the chunker's and the
\* ingestion handler's, and those beside each of these runs.
chatVars == <<chatPc, chatReq, chatTable, rpcArgs, chatDocuments, chatEvents,
              chatClosed, deltas, calls>>

textVars == <<tpc, tin, tlines, tst>>

readerVars == <<rdPc, sent, rdBody, rdPos, assistantResponse, contextUsed,
                assistantMessage, arrivedWhole>>

addVars == <<addPc, addIn, newContext, isUrl, isLoading, addingContextProgress,
             addBody, addPos, alerts, caught>>

sideVars == <<addVars, readerVars, textVars, urlVars, fetchVars, chatVars>>
besideUrl == <<chunkVars, ingestVars, fetchVars, chatVars, textVars, readerVars, addVars>>
besideFetch == <<chunkVars, ingestVars, urlVars, chatVars, textVars, readerVars, addVars>>
besideChat == <<chunkVars, ingestVars, urlVars, fetchVars, textVars, readerVars, addVars>>
besideReader == <<chunkVars, ingestVars, urlVars, fetchVars, chatVars, textVars, addVars>>
besideAdd == <<chunkVars, ingestVars, urlVars, fetchVars, chatVars, textVars, readerVars>>
besideText == <<chunkVars, ingestVars, urlVars, fetchVars, chatVars, readerVars, addVars>>

vars == <<cpc, text, maxSize, overlap, documents, loops,
          store, pc, req, existing, attempt, totalDocuments, documentCount,
          gen, error, events, closed, cancelled, pass, outcome, before,
          upc, uhtml, ucontent, ust, uunder,
          fpc, fmax, fdelay, fattempt, fresult, fgets, fwaited, ffailed,
          chatPc, chatReq, chatTable, rpcArgs, chatDocuments, chatEvents,
          chatClosed, deltas, calls,
          tpc, tin, tlines, tst,
          rdPc, sent, rdBody, rdPos, assistantResponse, contextUsed, assistantMessage, arrivedWhole,
          addPc, addIn, newContext, isUrl, isLoading, addingContextProgress, addBody, addPos, alerts, caught>>

\* ------------------------------------------------------------------ bounds
MaxLen == 5
MaxSize == 3
MaxElements == 5
MaxFetchRetries == 4
MaxDeltas == 3
MaxHtmlElements == 3
MaxTextLines == 3
MaxReplyLines == 2

\* ------------------------------------------------------------- characters
Terminators == {".", "!", "?"}
Whitespace == {" ", "\n", "\t"}
Alphabet == {"a", " ", ".", "\n"}

Max(S) == CHOOSE x \in S : \A y \in S : y <= x
Min(S) == CHOOSE x \in S : \A y \in S : x <= y

\* The character of a cell of the chunker.
Char(t, c) == IF c = 0 THEN " " ELSE t[c]

\* The string a sequence of cells stands for.
Str(t, cells) == [i \in 1..Len(cells) |-> Char(t, cells[i])]

\* ------------------------------------------------------- string primitives
\* String.prototype.trim on cells: drops leading and trailing whitespace.
Trim(t, s) ==
    LET keep == {i \in 1..Len(s) : Char(t, s[i]) \notin Whitespace}
    IN IF keep = {} THEN <<>> ELSE SubSeq(s, Min(keep), Max(keep))

\* s.slice(from) and s.slice(0, to) with the code's 0-based arguments.
SliceFrom(s, from) == SubSeq(s, from + 1, Len(s))
SliceTo(s, to) == SubSeq(s, 1, IF to < Len(s) THEN to ELSE Len(s))

\* s.lastIndexOf(' '), 0-based, -1 when s holds no space character.
LastIndexOfSpace(t, s) ==
    LET at == {i \in 1..Len(s) : Char(t, s[i]) = " "}
    IN IF at = {} THEN -1 ELSE Max(at) - 1

\* s.split(' '): the pieces between single space characters, empty pieces kept.
RECURSIVE SplitOnSpace(_, _)
SplitOnSpace(t, s) ==
    LET at == {i \in 1..Len(s) : Char(t, s[i]) = " "}
    IN IF at = {} THEN <<s>>
       ELSE <<SubSeq(s, 1, Min(at) - 1)>> \o SplitOnSpace(t, SubSeq(s, Min(at) + 1, Len(s)))

\* ------------------------------------------------------------ tokenization
\* Last index of the maximal run of characters of t, from p on, that lie in S
\* (p - 1 when t[p] is not in S).
RunEnd(t, p, S) ==
    Max({p - 1} \cup {q \in p..Len(t) : \A k \in p..q : t[k] \in S})

NonTerminators(t) == {t[k] : k \in 1..Len(t)} \ Terminators
NonWhitespace(t) == {t[k] : k \in 1..Len(t)} \ Whitespace

\* One attempt of /[^.!?]+[.!?]+|\S+/ at position p: the end of the match, or
\* p - 1 when neither alternative matches at p.
MatchEnd(t, p) ==
    LET run == RunEnd(t, p, NonTerminators(t))
    IN IF run >= p /\ run < Len(t)
       THEN RunEnd(t, run + 1, Terminators)
       ELSE RunEnd(t, p, NonWhitespace(t))

\* text.match(/[^.!?]+[.!?]+|\S+/g) || []: the matches, left to right, each as
\* the cells p..e of the input.
RECURSIVE MatchAll(_, _)
MatchAll(t, p) ==
    IF p > Len(t) THEN <<>>
    ELSE LET e == MatchEnd(t, p)
         IN IF e < p THEN MatchAll(t, p + 1)
            ELSE <<[i \in 1..(e - p + 1) |-> p + i - 1]>> \o MatchAll(t, e + 1)

\* ----------------------------------------------------------------- chunker
\* Mutant of ClampOverlap: the clamp left out.
ClampOverlap_Missing(o, m) == o

\* overlap = Math.min(overlap, maxSize - 1)
ClampOverlap(o, m) == IF o < m - 1 THEN o ELSE m - 1

\* The hard-split loop, while (sentence.length > maxSize): every slice is
\* pushed on documents at once.  n counts the iterations.
RECURSIVE HardSplit(_, _, _, _, _)
HardSplit(t, sentence, m, docs, n) ==
    IF Len(sentence) > m
    THEN LET chunk == SliceTo(sentence, m)
             lastSpaceIndex == LastIndexOfSpace(t, chunk)
         IN IF lastSpaceIndex > 0
            THEN HardSplit(t, Trim(t, SliceFrom(sentence, lastSpaceIndex)), m,
                           Append(docs, Trim(t, SliceTo(chunk, lastSpaceIndex))), n + 1)
            ELSE HardSplit(t, Trim(t, SliceFrom(sentence, m)), m,
                           Append(docs, chunk), n + 1)
    ELSE [sentence |-> sentence, documents |-> docs, n |-> n]

\* The overlap loop, while (words.length > 0 && overlapSize < overlap):
\* words.pop() is put in front of currentDoc, followed by a space.
RECURSIVE SeedOverlap(_, _, _, _, _)
SeedOverlap(words, currentDoc, overlapSize, o, n) ==
    IF Len(words) > 0 /\ overlapSize < o
    THEN LET word == words[Len(words)]
         IN SeedOverlap(SubSeq(words, 1, Len(words) - 1),
                        word \o <<0>> \o currentDoc,
                        overlapSize + Len(word) + 1, o, n + 1)
    ELSE [currentDoc |-> currentDoc, n |-> n]

\* Mutant of OverlapSeed: one word more than the overlap asks for.
OverlapSeed_OneMore(t, currentDoc, o) ==
    SeedOverlap(SplitOnSpace(t, currentDoc), <<>>, 0, o + 1, 0)

\* The buffer that follows a flush of currentDoc.
OverlapSeed(t, currentDoc, o) ==
    SeedOverlap(SplitOnSpace(t, currentDoc), <<>>, 0, o, 0)

\* The rest of an iteration of the for loop, after the hard split hs of
\* the unit: the flush of currentDoc with its overlap seed, and the append.
AddSentence(t, st, hs, m, o) ==
    LET flush == /\ Len(st.currentDoc) + Len(hs.sentence) > m
                 /\ Len(st.currentDoc) > 0
        seed == OverlapSeed(t, st.currentDoc, o)
    IN [documents  |-> IF flush THEN Append(hs.documents, Trim(t, st.currentDoc))
                                ELSE hs.documents,
        currentDoc |-> (IF flush THEN seed.currentDoc ELSE st.currentDoc)
                       \o hs.sentence \o <<0>>,
        hard       |-> st.hard + hs.n,
        seed       |-> st.seed + (IF flush THEN seed.n ELSE 0)]

\* One iteration of the for loop over sentences; st is the loop's state
\* [documents, currentDoc] with the iteration counters.
ChunkStep(t, st, raw, m, o) ==
    AddSentence(t, st, HardSplit(t, Trim(t, raw), m, st.documents, 0), m, o)

RECURSIVE ChunkLoop(_, _, _, _, _, _)
ChunkLoop(t, sentences, i, st, m, o) ==
    IF i > Len(sentences) THEN st
    ELSE ChunkLoop(t, sentences, i + 1, ChunkStep(t, st, sentences[i], m, o), m, o)

\* Mutant of LastChunk: the last document is added without the test.
LastChunk_Unconditional(t, st) ==
    [documents |-> Append(st.documents, Trim(t, st.currentDoc)),
     hard |-> st.hard, seed |-> st.seed]

\* After the for loop: the last document is added if it is not empty.
LastChunk(t, st) ==
    LET last == Trim(t, st.currentDoc)
    IN [documents |-> IF Len(last) > 0 THEN Append(st.documents, last) ELSE st.documents,
        hard |-> st.hard, seed |-> st.seed]

\* splitTextIntoDocuments(text, maxSize, overlap), chunks as cells, with the
\* number of iterations of its two while loops.
SplitRun(t, m, o) ==
    LastChunk(t, ChunkLoop(t, MatchAll(t, 1), 1,
                           [documents |-> <<>>, currentDoc |-> <<>>, hard |-> 0, seed |-> 0],
                           m, ClampOverlap(o, m)))

\* The strings of an array of chunks given as cells.
Strings(t, d) == [i \in 1..Len(d) |-> Str(t, d[i])]

\* splitTextIntoDocuments(text, maxSize, overlap) as the array of strings.
splitTextIntoDocuments(t, m, o) == Strings(t, SplitRun(t, m, o).documents)

\* ------------------------------------------------------ plain strings
\* The cells 1..Len(s) of a string s taken as the chunker's input.
Ident(s) == [i \in 1..Len(s) |-> i]

\* s.trim() on a plain string.
TrimStr(s) == Str(s, Trim(s, Ident(s)))

\* s.split('\n') on a plain string, empty pieces kept.
RECURSIVE SplitLines(_)
SplitLines(s) ==
    LET at == {i \in 1..Len(s) : s[i] = "\n"}
    IN IF at = {} THEN <<s>>
       ELSE <<SubSeq(s, 1, Min(at) - 1)>> \o SplitLines(SubSeq(s, Min(at) + 1, Len(s)))

\* s.replace(/\s+/g, ' '): every run of whitespace becomes one space.
RECURSIVE CollapseWhitespace(_)
CollapseWhitespace(s) ==
    IF s = <<>> THEN <<>>
    ELSE IF s[1] \in Whitespace
         THEN LET e == RunEnd(s, 1, Whitespace)
              IN <<" ">> \o CollapseWhitespace(SubSeq(s, e + 1, Len(s)))
         ELSE <<s[1]>> \o CollapseWhitespace(Tail(s))

\* parts.join(sep)
RECURSIVE Join(_, _)
Join(parts, sep) ==
    IF parts = <<>> THEN <<>>
    ELSE IF Len(parts) = 1 THEN parts[1]
         ELSE parts[1] \o sep \o Join(Tail(parts), sep)

\* ------------------------------------------------------ program constants
DefaultMaxSize == 1000
DefaultOverlap == 250
TextBufferLimit == 2000
MaxRetries == 3

\* -------------------------------------------------------- HTML structurer
\* A fetched page is its parsed tree as far as processHTML reads it:
\* [hasTitle, title, elements], elements being the h1..h6, p and li elements
\* in document order, each [tag, text] with its raw text.
HeadingTags == {"h1", "h2", "h3", "h4", "h5", "h6"}

\* parseInt(tag.charAt(1)) of a heading tag
HeadingLevel(tag) ==
    CASE tag = "h1" -> 1 [] tag = "h2" -> 2 [] tag = "h3" -> 3
      [] tag = "h4" -> 4 [] tag = "h5" -> 5 [] tag = "h6" -> 6

NoTitle == <<"N", "o", " ", "T", "i", "t", "l", "e">>

RECURSIVE YieldElements(_)
YieldElements(elements) ==
    IF elements = <<>> THEN <<>>
    ELSE LET elText == CollapseWhitespace(TrimStr(elements[1].text))
         IN (IF elText # <<>> THEN <<[tag |-> elements[1].tag, text |-> elText]>> ELSE <<>>)
            \o YieldElements(Tail(elements))

\* Mutant of processHTML: a title without text is not yielded.
processHTML_TitleIfAny(html) ==
    (IF html.hasTitle /\ TrimStr(html.title) = <<>> THEN <<>>
     ELSE <<[tag |-> "title", text |-> IF html.hasTitle THEN TrimStr(html.title) ELSE NoTitle]>>)
    \o YieldElements(html.elements)

\* processHTML(html): the title first, then the non-empty elements.
processHTML(html) ==
    <<[tag |-> "title", text |-> IF html.hasTitle THEN TrimStr(html.title) ELSE NoTitle]>>
    \o YieldElements(html.elements)

\* ------------------------------------------------------ document generator
Arrow == <<" ", "=", ">", " ">>
Crumb == <<" ", ">", " ">>

\* Mutant of WithBreadcrumb: the content is the chunk alone.
WithBreadcrumb_Bare(url, headingStack, chunks) ==
    [i \in 1..Len(chunks) |-> [content |-> chunks[i], source |-> url]]

\* { content: headingStack.join(" > ") + " => " + doc, metadata: { source: url } }
\* for every doc of chunks.
WithBreadcrumb(url, headingStack, chunks) ==
    [i \in 1..Len(chunks) |->
        [content |-> Join(headingStack, Crumb) \o Arrow \o chunks[i],
         source |-> url]]

\* The documents yielded for one section buffer (URL generator).
SectionDocuments(url, headingStack, currentDocument) ==
    WithBreadcrumb(url, headingStack,
        splitTextIntoDocuments(TrimStr(currentDocument), DefaultMaxSize, DefaultOverlap))

\* Mutant of PushHeading: the heading text is appended to the whole stack.
PushHeading_AppendOnly(headingStack, level, hText) == Append(headingStack, hText)

\* headingStack.slice(0, level).concat(text)
PushHeading(headingStack, level, hText) ==
    SubSeq(headingStack, 1, IF level < Len(headingStack) THEN level ELSE Len(headingStack))
    \o <<hText>>

\* Mutant of UrlStep: a heading does not open a new section, so that its
\* text is added to the buffer like the text of a paragraph.
UrlStep_HeadingInBuffer(url, st, el) ==
    LET isHeading == el.tag \in HeadingTags
        flush == isHeading /\ TrimStr(st.currentDocument) # <<>>
        stack == IF el.tag = "title" THEN <<el.text>>
                 ELSE IF isHeading THEN PushHeading(st.headingStack, HeadingLevel(el.tag), el.text)
                 ELSE st.headingStack
        buffer == IF flush THEN <<>> ELSE st.currentDocument
    IN [yielded |-> IF flush
                    THEN st.yielded \o SectionDocuments(url, st.headingStack, st.currentDocument)
                    ELSE st.yielded,
        headingStack |-> stack,
        currentDocument |-> IF st.isNewSection THEN buffer ELSE buffer \o <<" ">> \o el.text,
        isNewSection |-> FALSE]

\* Mutant of UrlStep: the heading stack is updated before the buffer is
\* flushed, so the flushed chunks carry the breadcrumb of the next heading.
UrlStep_StackFirst(url, st, el) ==
    LET isHeading == el.tag \in HeadingTags
        flush == isHeading /\ TrimStr(st.currentDocument) # <<>>
        stack == IF el.tag = "title" THEN <<el.text>>
                 ELSE IF isHeading THEN PushHeading(st.headingStack, HeadingLevel(el.tag), el.text)
                 ELSE st.headingStack
        buffer == IF flush THEN <<>> ELSE st.currentDocument
        isNewSection == isHeading \/ st.isNewSection
    IN [yielded |-> IF flush
                    THEN st.yielded \o SectionDocuments(url, stack, st.currentDocument)
                    ELSE st.yielded,
        headingStack |-> stack,
        currentDocument |-> IF isNewSection THEN buffer ELSE buffer \o <<" ">> \o el.text,
        isNewSection |-> FALSE]

\* One iteration of the loop of generateDocumentsFromUrl over processedContent.
UrlStep(url, st, el) ==
    LET isHeading == el.tag \in HeadingTags
        flush == isHeading /\ TrimStr(st.currentDocument) # <<>>
        stack == IF el.tag = "title" THEN <<el.text>>
                 ELSE IF isHeading THEN PushHeading(st.headingStack, HeadingLevel(el.tag), el.text)
                 ELSE st.headingStack
        buffer == IF flush THEN <<>> ELSE st.currentDocument
        isNewSection == isHeading \/ st.isNewSection
    IN [yielded |-> IF flush
                    THEN st.yielded \o SectionDocuments(url, st.headingStack, st.currentDocument)
                    ELSE st.yielded,
        headingStack |-> stack,
        currentDocument |-> IF isNewSection THEN buffer ELSE buffer \o <<" ">> \o el.text,
        isNewSection |-> FALSE]

RECURSIVE UrlLoop(_, _, _)
UrlLoop(url, st, content) ==
    IF content = <<>> THEN st
    ELSE UrlLoop(url, UrlStep(url, st, content[1]), Tail(content))

\* After the loop: the remaining content is yielded as the last documents.
UrlRemainder(url, st) ==
    IF TrimStr(st.currentDocument) # <<>>
    THEN st.yielded \o SectionDocuments(url, st.headingStack, st.currentDocument)
    ELSE st.yielded

\* generateDocumentsFromUrl(url), given the body fetchWebContent returned:
\* the sequence of documents the generator yields.
generateDocumentsFromUrl(url, html) ==
    UrlRemainder(url, UrlLoop(url,
                              [yielded |-> <<>>, headingStack |-> <<>>,
                               currentDocument |-> <<>>, isNewSection |-> TRUE],
                              processHTML(html)))

\* Mutant of WithSource: the generator attaches an owner to its documents.
WithSource_WithOwner(userName, chunks) ==
    [i \in 1..Len(chunks) |-> [content |-> chunks[i], source |-> userName, by |-> userName]]

\* { content: doc, metadata: { source: userName } } for every doc of chunks.
WithSource(userName, chunks) ==
    [i \in 1..Len(chunks) |-> [content |-> chunks[i], source |-> userName]]

\* The documents yielded for one buffer (text generator).
TextDocuments(userName, buffer) ==
    WithSource(userName, splitTextIntoDocuments(buffer, DefaultMaxSize, DefaultOverlap))

\* Mutant of AddLine: the buffer is flushed when the sum reaches the limit.
AddLine_FlushAtLimit(userName, st, trimmedLine, limit) ==
    LET flush == Len(st.currentDocument) + Len(trimmedLine) >= limit
    IN IF trimmedLine = <<>> THEN st
       ELSE [yielded |-> IF flush
                         THEN st.yielded \o TextDocuments(userName, st.currentDocument)
                         ELSE st.yielded,
             currentDocument |-> (IF flush THEN <<>> ELSE st.currentDocument)
                                 \o trimmedLine \o <<"\n">>]

\* The loop body for a line whose trimmed text is trimmedLine.
AddLine(userName, st, trimmedLine, limit) ==
    LET flush == Len(st.currentDocument) + Len(trimmedLine) > limit
    IN IF trimmedLine = <<>> THEN st
       ELSE [yielded |-> IF flush
                         THEN st.yielded \o TextDocuments(userName, st.currentDocument)
                         ELSE st.yielded,
             currentDocument |-> (IF flush THEN <<>> ELSE st.currentDocument)
                                 \o trimmedLine \o <<"\n">>]

\* One iteration of the loop of generateDocumentsFromText over lines.
TextStep(userName, st, line, limit) == AddLine(userName, st, TrimStr(line), limit)

RECURSIVE TextLoop(_, _, _, _)
TextLoop(userName, st, lines, limit) ==
    IF lines = <<>> THEN st
    ELSE TextLoop(userName, TextStep(userName, st, lines[1], limit), Tail(lines), limit)

\* After the loop: the remaining content is yielded as the last documents.
TextRemainder(userName, st) ==
    IF TrimStr(st.currentDocument) # <<>>
    THEN st.yielded \o TextDocuments(userName, TrimStr(st.currentDocument))
    ELSE st.yielded

\* generateDocumentsFromText(text, userName): the documents it yields.
generateDocumentsFromText(txt, userName) ==
    TextRemainder(userName,
                  TextLoop(userName, [yielded |-> <<>>, currentDocument |-> <<>>],
                           SplitLines(txt), TextBufferLimit))

\* --------------------------------------------------- ingestion: the inputs
Requests == {"r1", "r2"}
Users == {"u1", "u2"}

\* user.displayName of the signed-in user with uid u
UserNameOf(u) == IF u = "u1" THEN <<"n", "1">> ELSE <<"n", "2">>

UrlText == <<"h", "t", "t", "p", ":", "/", "/", "x">>
PlainText == <<"a", " ", "b", ".", "\n", "c">>
RequestTexts == {<<>>, UrlText, PlainText}

Bodies ==
    {[text |-> t, isUrl |-> b, userName |-> UserNameOf(u), userId |-> u] :
        t \in RequestTexts, b \in BOOLEAN, u \in Users}

NoBody == [text |-> <<>>, isUrl |-> FALSE, userName |-> <<>>, userId |-> ""]

HasPrefix(s, pre) == Len(s) > Len(pre) /\ SubSeq(s, 1, Len(pre)) = pre

\* isValidHttpUrl(text) of app/utils: an absolute http or https URL.
isValidHttpUrl(t) ==
    \/ HasPrefix(t, <<"h", "t", "t", "p", ":", "/", "/">>)
    \/ HasPrefix(t, <<"h", "t", "t", "p", "s", ":", "/", "/">>)

\* The bodies the remote server may answer a fetch of the URL with.
PageEmpty == [hasTitle |-> TRUE, title |-> <<"T">>, elements |-> <<>>]
PageOne ==
    [hasTitle |-> TRUE, title |-> <<"T">>,
     elements |-> <<[tag |-> "p", text |-> <<"a", " ", "b">>]>>]
PageTwo ==
    [hasTitle |-> TRUE, title |-> <<"T">>,
     elements |-> <<[tag |-> "p", text |-> <<"a", " ", "b">>],
                    [tag |-> "h1", text |-> <<"H">>],
                    [tag |-> "p", text |-> <<"c">>]>>]
Pages == {PageEmpty, PageOne, PageTwo}

\* Records earlier requests left in the table.
EarlierRecords ==
    {[id |-> <<"r0", 1>>, content |-> <<"T", " ", "=", ">", " ", "a", " ", "b">>,
      source |-> UrlText, by |-> "u1"],
     [id |-> <<"r0", 2>>, content |-> <<"T", " ", "=", ">", " ", "a", " ", "b">>,
      source |-> UrlText, by |-> "u2"],
     [id |-> <<"r0", 3>>, content |-> <<"a", " ", "b", ".", " ", "c">>,
      source |-> UserNameOf("u1"), by |-> "u1"]}

\* ------------------------------------------------- ingestion: the handler
\* An event line of the response stream.
PercentageEvent(p) == [type |-> "percentage", finite |-> p.finite, value |-> p.value]
ErrorEvent(message) == [type |-> "error", message |-> message]

\* Math.round(documentCount / totalDocuments * 100): round half up; with
\* totalDocuments = 0 the quotient is Infinity (documentCount is at least 1
\* here), which JSON.stringify writes as null.
Percentage(count, total) ==
    IF total = 0 THEN [finite |-> FALSE, value |-> 0]
    ELSE [finite |-> TRUE, value |-> (200 * count + total) \div (2 * total)]

\* controller.enqueue(encoder.encode(JSON.stringify(event) + '\n'))
Enqueue(r, event) == events' = [events EXCEPT ![r] = Append(@, event)]

\* A throw that reaches the catch of POST.
Throw(r, message) ==
    /\ pc' = [pc EXCEPT ![r] = "catch"]
    /\ error' = [error EXCEPT ![r] = message]

\* Mutant of Start: the text is not checked for being there.
Start_NoTextCheck(r) ==
    /\ pc[r] = "idle"
    /\ UNCHANGED <<chunkVars, sideVars, cancelled>>
    /\ \E body \in Bodies :
        /\ req' = [req EXCEPT ![r] = body]
        /\ IF body.isUrl
           THEN IF ~isValidHttpUrl(body.text)
                THEN Throw(r, "Invalid URL provided")
                ELSE pc' = [pc EXCEPT ![r] = "select"] /\ UNCHANGED error
           ELSE pc' = [pc EXCEPT ![r] = "count"] /\ UNCHANGED error
    /\ before' = [before EXCEPT ![r] = {q \in Requests : pc[q] = "done"}]
    /\ UNCHANGED <<store, existing, attempt, totalDocuments, documentCount, gen,
                   events, closed, pass, outcome>>

\* const { text, isUrl, userName, userId } = await req.json(), the checks of
\* text and of the URL, and the branch on isUrl.
Start(r) ==
    /\ pc[r] = "idle"
    /\ UNCHANGED <<chunkVars, sideVars, cancelled>>
    /\ \E body \in Bodies :
        /\ req' = [req EXCEPT ![r] = body]
        /\ IF body.text = <<>>
           THEN Throw(r, "Either text or URL must be provided")
           ELSE IF body.isUrl
                THEN IF ~isValidHttpUrl(body.text)
                     THEN Throw(r, "Invalid URL provided")
                     ELSE pc' = [pc EXCEPT ![r] = "select"] /\ UNCHANGED error
                ELSE pc' = [pc EXCEPT ![r] = "count"] /\ UNCHANGED error
    /\ before' = [before EXCEPT ![r] = {q \in Requests : pc[q] = "done"}]
    /\ UNCHANGED <<store, existing, attempt, totalDocuments, documentCount, gen,
                   events, closed, pass, outcome>>

\* await req.json() rejects: the body is no JSON.
StartMalformed(r) ==
    /\ pc[r] = "idle"
    /\ UNCHANGED <<chunkVars, sideVars, cancelled>>
    /\ Throw(r, "Unexpected token")
    /\ before' = [before EXCEPT ![r] = {q \in Requests : pc[q] = "done"}]
    /\ UNCHANGED <<store, req, existing, attempt, totalDocuments, documentCount, gen,
                   events, closed, pass, outcome>>

\* Mutant of ExistingDocuments: the owner is not compared.
ExistingDocuments_AnyOwner(table, url, userId) ==
    {rec \in table : rec.source = url}

\* Mutant of ExistingDocuments: the select answers the records of the other
\* owners of the url.
ExistingDocuments_OtherOwner(table, url, userId) ==
    {rec \in table : rec.source = url /\ rec.by # userId}

\* select("id").eq("metadata->>source", url).eq("metadata->>by", userId)
ExistingDocuments(table, url, userId) ==
    {rec \in table : rec.source = url /\ rec.by = userId}

\* deleteExistingDocuments: the select answers.
SelectExisting(r) ==
    /\ pc[r] = "select"
    /\ UNCHANGED <<chunkVars, sideVars, cancelled>>
    /\ LET found == {rec.id : rec \in ExistingDocuments(store, req[r].text, req[r].userId)}
       IN /\ existing' = [existing EXCEPT ![r] = found]
          /\ pc' = [pc EXCEPT ![r] = IF found # {} THEN "delete" ELSE "fetch1"]
    /\ UNCHANGED <<store, req, attempt, totalDocuments, documentCount, gen, error,
                   events, closed, pass, outcome, before>>

\* deleteExistingDocuments: the select fails, if (fetchError) throw fetchError.
SelectFails(r) ==
    /\ pc[r] = "select"
    /\ UNCHANGED <<chunkVars, sideVars, cancelled>>
    /\ Throw(r, "select failed")
    /\ UNCHANGED <<store, req, existing, attempt, totalDocuments, documentCount, gen,
                   events, closed, pass, outcome, before>>

\* Mutant of DeleteExisting: the delete is put off until after the fetch.
DeleteExisting_Deferred(r) ==
    /\ pc[r] = "delete"
    /\ UNCHANGED <<chunkVars, sideVars, cancelled>>
    /\ pc' = [pc EXCEPT ![r] = "fetch1"]
    /\ UNCHANGED <<store, req, existing, attempt, totalDocuments, documentCount, gen, error,
                   events, closed, pass, outcome, before>>

\* Mutant of DeleteExisting: the delete takes every record that matches the
\* url and the user when it runs.
DeleteExisting_ByMatch(r) ==
    /\ pc[r] = "delete"
    /\ UNCHANGED <<chunkVars, sideVars, cancelled>>
    /\ store' = store \ ExistingDocuments(store, req[r].text, req[r].userId)
    /\ pc' = [pc EXCEPT ![r] = "fetch1"]
    /\ UNCHANGED <<req, existing, attempt, totalDocuments, documentCount, gen, error,
                   events, closed, pass, outcome, before>>

\* deleteExistingDocuments: delete().in("id", existingDocs.map(doc => doc.id))
DeleteExisting(r) ==
    /\ pc[r] = "delete"
    /\ UNCHANGED <<chunkVars, sideVars, cancelled>>
    /\ store' = {rec \in store : rec.id \notin existing[r]}
    /\ pc' = [pc EXCEPT ![r] = "fetch1"]
    /\ UNCHANGED <<req, existing, attempt, totalDocuments, documentCount, gen, error,
                   events, closed, pass, outcome, before>>

\* deleteExistingDocuments: the delete fails, if (deleteError) throw deleteError.
DeleteFails(r) ==
    /\ pc[r] = "delete"
    /\ UNCHANGED <<chunkVars, sideVars, cancelled>>
    /\ Throw(r, "delete failed")
    /\ UNCHANGED <<store, req, existing, attempt, totalDocuments, documentCount, gen,
                   events, closed, pass, outcome, before>>

\* The second pass starts on the documents docs.
BeginSecondPass(r, docs) ==
    /\ gen' = [gen EXCEPT ![r] = docs]
    /\ pass' = [pass EXCEPT ![r] = docs]
    /\ pc' = [pc EXCEPT ![r] = IF docs = <<>> THEN "final" ELSE "embed"]

\* fetchWebContent: axios.get(url) answers.  In the first pass the loop
\* counts the generator's documents, in the second it starts taking them.
FetchSucceeds(r) ==
    /\ pc[r] \in {"fetch1", "fetch2"}
    /\ UNCHANGED <<chunkVars, sideVars, cancelled>>
    /\ \E html \in Pages :
        LET docs == generateDocumentsFromUrl(req[r].text, html)
        IN IF pc[r] = "fetch1"
           THEN /\ totalDocuments' = [totalDocuments EXCEPT ![r] = Len(docs)]
                /\ pc' = [pc EXCEPT ![r] = "fetch2"]
                /\ UNCHANGED <<gen, pass>>
           ELSE /\ BeginSecondPass(r, docs)
                /\ UNCHANGED totalDocuments
    /\ attempt' = [attempt EXCEPT ![r] = 0]
    /\ UNCHANGED <<store, req, existing, documentCount, error, events, closed,
                   outcome, before>>

\* fetchWebContent: axios.get(url) fails; attempt++, and the error is thrown
\* on when attempt >= maxRetries, else the call waits retryDelay and retries.
FetchFails(r) ==
    /\ pc[r] \in {"fetch1", "fetch2"}
    /\ UNCHANGED <<chunkVars, sideVars, cancelled>>
    /\ attempt' = [attempt EXCEPT ![r] = @ + 1]
    /\ IF attempt[r] + 1 >= MaxRetries
       THEN Throw(r, "Failed to fetch after 3 attempts")
       ELSE UNCHANGED <<pc, error>>
    /\ UNCHANGED <<store, req, existing, totalDocuments, documentCount, gen,
                   events, closed, pass, outcome, before>>

\* Mutant of CountText: the documents are taken while they are counted.
CountText_Interleaved(r) ==
    /\ pc[r] = "count"
    /\ UNCHANGED <<chunkVars, sideVars, cancelled>>
    /\ totalDocuments' =
          [totalDocuments EXCEPT ![r] = Len(generateDocumentsFromText(req[r].text, req[r].userName))]
    /\ BeginSecondPass(r, generateDocumentsFromText(req[r].text, req[r].userName))
    /\ UNCHANGED <<store, req, existing, attempt, documentCount, error,
                   events, closed, outcome, before>>

\* processTextInput, first pass: the generator is run to its end and counted.
CountText(r) ==
    /\ pc[r] = "count"
    /\ UNCHANGED <<chunkVars, sideVars, cancelled>>
    /\ totalDocuments' =
          [totalDocuments EXCEPT ![r] = Len(generateDocumentsFromText(req[r].text, req[r].userName))]
    /\ pc' = [pc EXCEPT ![r] = "recount"]
    /\ UNCHANGED <<store, req, existing, attempt, documentCount, gen, error,
                   events, closed, pass, outcome, before>>

\* processTextInput, second pass: the generator is called again.
RestartText(r) ==
    /\ pc[r] = "recount"
    /\ UNCHANGED <<chunkVars, sideVars, cancelled>>
    /\ BeginSecondPass(r, generateDocumentsFromText(req[r].text, req[r].userName))
    /\ UNCHANGED <<store, req, existing, attempt, totalDocuments, documentCount, error,
                   events, closed, outcome, before>>

\* The loop body after processDocument returned: documentCount++, the
\* progress line, and the generator's next document.  On a cancelled stream
\* controller.enqueue throws a TypeError, which the catch (docError) of the
\* loop body logs.
AfterDocument(r, what) ==
    /\ documentCount' = [documentCount EXCEPT ![r] = @ + 1]
    /\ IF cancelled[r]
       THEN UNCHANGED events
       ELSE Enqueue(r, PercentageEvent(Percentage(documentCount[r] + 1, totalDocuments[r])))
    /\ outcome' = [outcome EXCEPT ![r] = Append(@, what)]
    /\ gen' = [gen EXCEPT ![r] = Tail(@)]
    /\ pc' = [pc EXCEPT ![r] = IF Tail(gen[r]) = <<>> THEN "final" ELSE "embed"]
    /\ UNCHANGED error

\* Mutant of DocumentFailed: a failed document sends no progress line.
DocumentFailed_NoProgress(r, what) ==
    /\ documentCount' = [documentCount EXCEPT ![r] = @ + 1]
    /\ outcome' = [outcome EXCEPT ![r] = Append(@, what)]
    /\ gen' = [gen EXCEPT ![r] = Tail(@)]
    /\ pc' = [pc EXCEPT ![r] = IF Tail(gen[r]) = <<>> THEN "final" ELSE "embed"]
    /\ UNCHANGED <<events, error>>

\* Mutant of DocumentFailed: the error of one document ends the request.
DocumentFailed_Aborts(r, what) ==
    /\ Throw(r, "document failed")
    /\ outcome' = [outcome EXCEPT ![r] = Append(@, what)]
    /\ UNCHANGED <<documentCount, events, gen>>

\* processDocument's catch: the error of getEmbedding or insertDocument is
\* logged and processDocument returns.
DocumentFailed(r, what) == AfterDocument(r, what)

\* processDocument: getEmbedding(document.content) returns a vector.
EmbeddingSucceeds(r) ==
    /\ pc[r] = "embed"
    /\ UNCHANGED <<chunkVars, sideVars, cancelled>>
    /\ pc' = [pc EXCEPT ![r] = "insert"]
    /\ UNCHANGED <<store, req, existing, attempt, totalDocuments, documentCount, gen, error,
                   events, closed, pass, outcome, before>>

\* processDocument: getEmbedding throws (the call fails, or answers without
\* a vector: 'Invalid embedding response').
EmbeddingFails(r) ==
    /\ pc[r] = "embed"
    /\ UNCHANGED <<chunkVars, sideVars, cancelled>>
    /\ DocumentFailed(r, "embedFailed")
    /\ UNCHANGED <<store, req, existing, attempt, totalDocuments, closed, pass, before>>

\* content.split(" ").length
WordCount(content) == Len(SplitOnSpace(content, Ident(content)))

\* The id the table gives the next record of request r.
NextId(r) == <<r, Cardinality({i \in 1..Len(outcome[r]) : outcome[r][i] = "stored"}) + 1>>

\* Mutant of InsertDocument: a record of the same source and owner, when
\* there is one, gets the content of the document in place.
InsertDocument_InPlace(r) ==
    /\ pc[r] = "insert"
    /\ UNCHANGED <<chunkVars, sideVars, cancelled>>
    /\ LET document == Head(gen[r])
           same == {rec \in store : rec.source = document.source /\ rec.by = req[r].userId}
       IN IF WordCount(document.content) < 2
          THEN /\ AfterDocument(r, "rejected")
               /\ UNCHANGED store
          ELSE /\ store' = IF same # {}
                           THEN (store \ same)
                                \cup {[rec EXCEPT !.content = document.content] : rec \in same}
                           ELSE store \cup {[id |-> NextId(r), content |-> document.content,
                                             source |-> document.source, by |-> req[r].userId]}
               /\ AfterDocument(r, "stored")
    /\ UNCHANGED <<req, existing, attempt, totalDocuments, closed, pass, before>>

\* Mutant of InsertDocument: the insert replaces the records of the same
\* source and owner.
InsertDocument_Upsert(r) ==
    /\ pc[r] = "insert"
    /\ UNCHANGED <<chunkVars, sideVars, cancelled>>
    /\ LET document == Head(gen[r])
       IN IF WordCount(document.content) < 2
          THEN /\ AfterDocument(r, "rejected")
               /\ UNCHANGED store
          ELSE /\ store' = {rec \in store : rec.source # document.source \/ rec.by # req[r].userId}
                              \cup {[id |-> NextId(r), content |-> document.content,
                                     source |-> document.source, by |-> req[r].userId]}
               /\ AfterDocument(r, "stored")
    /\ UNCHANGED <<req, existing, attempt, totalDocuments, closed, pass, before>>

\* insertDocument: contents of fewer than 2 words return at once; the others
\* are inserted with metadata { source: document.metadata.source, by: userId }.
InsertDocument(r) ==
    /\ pc[r] = "insert"
    /\ UNCHANGED <<chunkVars, sideVars, cancelled>>
    /\ LET document == Head(gen[r])
       IN IF WordCount(document.content) < 2
          THEN /\ AfterDocument(r, "rejected")
               /\ UNCHANGED store
          ELSE /\ store' = store \cup {[id |-> NextId(r), content |-> document.content,
                                        source |-> document.source, by |-> req[r].userId]}
               /\ AfterDocument(r, "stored")
    /\ UNCHANGED <<req, existing, attempt, totalDocuments, closed, pass, before>>

\* insertDocument: the insert fails, if (error) throw error.
InsertFails(r) ==
    /\ pc[r] = "insert"
    /\ UNCHANGED <<chunkVars, sideVars, cancelled>>
    /\ WordCount(Head(gen[r]).content) >= 2
    /\ DocumentFailed(r, "insertFailed")
    /\ UNCHANGED <<store, req, existing, attempt, totalDocuments, closed, pass, before>>

\* On a cancelled stream controller.enqueue throws a TypeError in the try
\* block or in the catch block, controller.close() throws it again in the
\* finally block, and the promise of start rejects with it.
Escapes(r) ==
    /\ pc' = [pc EXCEPT ![r] = "escaped"]
    /\ UNCHANGED <<events, closed>>

\* Mutant of Finally: the stream is left open.
Finally_NoClose(r) == UNCHANGED closed

\* finally { controller.close() }
Finally(r) == closed' = [closed EXCEPT ![r] = @ + 1]

\* POST after the input was processed: the line { percentage: 100 }, then
\* finally controller.close().
Finish(r) ==
    /\ pc[r] = "final"
    /\ UNCHANGED <<chunkVars, sideVars, cancelled>>
    /\ IF cancelled[r]
       THEN Escapes(r)
       ELSE /\ Enqueue(r, PercentageEvent([finite |-> TRUE, value |-> 100]))
            /\ Finally(r)
            /\ pc' = [pc EXCEPT ![r] = "done"]
    /\ UNCHANGED <<store, req, existing, attempt, totalDocuments, documentCount, gen, error,
                   pass, outcome, before>>

\* POST's catch: the line { error: error.message }, then finally
\* controller.close().
CatchError(r) ==
    /\ pc[r] = "catch"
    /\ UNCHANGED <<chunkVars, sideVars, cancelled>>
    /\ IF cancelled[r]
       THEN Escapes(r)
       ELSE /\ Enqueue(r, ErrorEvent(error[r]))
            /\ Finally(r)
            /\ pc' = [pc EXCEPT ![r] = "done"]
    /\ UNCHANGED <<store, req, existing, attempt, totalDocuments, documentCount, gen, error,
                   pass, outcome, before>>

IngestIdle ==
    /\ pc = [r \in Requests |-> "idle"]
    /\ req = [r \in Requests |-> NoBody]
    /\ existing = [r \in Requests |-> {}]
    /\ attempt = [r \in Requests |-> 0]
    /\ totalDocuments = [r \in Requests |-> 0]
    /\ documentCount = [r \in Requests |-> 0]
    /\ gen = [r \in Requests |-> <<>>]
    /\ error = [r \in Requests |-> ""]
    /\ events = [r \in Requests |-> <<>>]
    /\ closed = [r \in Requests |-> 0]
    /\ cancelled = [r \in Requests |-> FALSE]
    /\ pass = [r \in Requests |-> <<>>]
    /\ outcome = [r \in Requests |-> <<>>]
    /\ before = [r \in Requests |-> {}]

ChunkIdle ==
    /\ cpc = "idle"
    /\ text = <<>>
    /\ maxSize = 1
    /\ overlap = 0
    /\ documents = <<>>
    /\ loops = [hard |-> 0, seed |-> 0]

UrlIdle ==
    /\ upc = "idle"
    /\ uhtml = PageEmpty
    /\ ucontent = <<>>
    /\ ust = [yielded |-> <<>>, headingStack |-> <<>>, currentDocument |-> <<>>,
              isNewSection |-> TRUE]
    /\ uunder = {}

\* The parsed value of the JSON text [].
EmptyArray == [k |-> "array", items |-> <<>>]

ReaderIdle ==
    /\ rdPc = "idle"
    /\ sent = <<>>
    /\ rdBody = <<>>
    /\ rdPos = 0
    /\ assistantResponse = <<>>
    /\ contextUsed = EmptyArray
    /\ assistantMessage = <<>>
    /\ arrivedWhole = {}

\* The parsed value of the JSON text 0.
Zero == [k |-> "number", str |-> <<"0">>]

NoAdd == [text |-> <<>>, isUrl |-> FALSE, valid |-> FALSE, reply |-> [kind |-> "none"]]

AddIdle ==
    /\ addPc = "idle"
    /\ addIn = NoAdd
    /\ newContext = <<>>
    /\ isUrl = FALSE
    /\ isLoading = FALSE
    /\ addingContextProgress = Zero
    /\ addBody = <<>>
    /\ addPos = 0
    /\ alerts = <<>>
    /\ caught = <<>>

TextIdle ==
    /\ tpc = "idle"
    /\ tin = [text |-> <<>>, userName |-> <<>>]
    /\ tlines = <<>>
    /\ tst = [yielded |-> <<>>, currentDocument |-> <<>>]

NoResult == [kind |-> "none"]

FetchIdle ==
    /\ fpc = "idle"
    /\ fmax = 0
    /\ fdelay = 0
    /\ fattempt = 0
    /\ fresult = NoResult
    /\ fgets = 0
    /\ fwaited = <<>>
    /\ ffailed = <<>>

NoChatBody == [malformed |-> TRUE, useOnlyMyContext |-> FALSE, userId |-> ""]
NoArgs == [match_threshold |-> 0, match_count |-> 0, user_id |-> ""]

ChatIdle ==
    /\ chatPc = "idle"
    /\ chatReq = NoChatBody
    /\ chatTable = {}
    /\ rpcArgs = NoArgs
    /\ chatDocuments = <<>>
    /\ chatEvents = <<>>
    /\ chatClosed = 0
    /\ deltas = <<>>
    /\ calls = <<>>

SideIdle == UrlIdle /\ FetchIdle /\ ChatIdle /\ TextIdle /\ ReaderIdle /\ AddIdle

Init ==
    /\ store \in {{}, EarlierRecords}
    /\ IngestIdle
    /\ ChunkIdle
    /\ SideIdle

Next ==
    \/ \E r \in Requests : Start(r)
    \/ \E r \in Requests : StartMalformed(r)
    \/ \E r \in Requests : SelectExisting(r)
    \/ \E r \in Requests : SelectFails(r)
    \/ \E r \in Requests : DeleteExisting(r)
    \/ \E r \in Requests : DeleteFails(r)
    \/ \E r \in Requests : FetchSucceeds(r)
    \/ \E r \in Requests : FetchFails(r)
    \/ \E r \in Requests : CountText(r)
    \/ \E r \in Requests : RestartText(r)
    \/ \E r \in Requests : EmbeddingSucceeds(r)
    \/ \E r \in Requests : EmbeddingFails(r)
    \/ \E r \in Requests : InsertDocument(r)
    \/ \E r \in Requests : InsertFails(r)
    \/ \E r \in Requests : Finish(r)
    \/ \E r \in Requests : CatchError(r)

Spec == Init /\ [][Next]_vars

\* ------------------------------------------ ingestion with a cancelling caller
\* The caller cancels the response stream (it disconnects) while the handler
\* waits for an outside call.  The ReadableStream of POST has no cancel
\* callback and the handler reads no abort signal, so nothing but the state
\* of the stream's controller changes.
Awaiting == {"select", "delete", "fetch1", "fetch2", "embed", "insert"}

Cancel(r) ==
    /\ pc[r] \in Awaiting
    /\ ~cancelled[r]
    /\ cancelled' = [cancelled EXCEPT ![r] = TRUE]
    /\ UNCHANGED <<store, pc, req, existing, attempt, totalDocuments, documentCount,
                   gen, error, events, closed, pass, outcome, before>>
    /\ UNCHANGED <<chunkVars, sideVars>>

\* One request and its caller.
NextCancel ==
    \/ Start("r1")
    \/ StartMalformed("r1")
    \/ SelectExisting("r1")
    \/ SelectFails("r1")
    \/ DeleteExisting("r1")
    \/ DeleteFails("r1")
    \/ FetchSucceeds("r1")
    \/ FetchFails("r1")
    \/ CountText("r1")
    \/ RestartText("r1")
    \/ EmbeddingSucceeds("r1")
    \/ EmbeddingFails("r1")
    \/ InsertDocument("r1")
    \/ InsertFails("r1")
    \/ Finish("r1")
    \/ CatchError("r1")
    \/ Cancel("r1")

SpecCancel == Init /\ [][NextCancel]_vars

\* ---------------------------------------------- claims on the ingestion
\* The records of a table with the given source and owner.
RecordsFor(table, url, userId) == {rec \in table : rec.source = url /\ rec.by = userId}

\* Request r ingests a URL: its body passed both checks with isUrl set.
UrlRun(r) == pc[r] # "idle" /\ req[r].isUrl /\ isValidHttpUrl(req[r].text)

\* The second-pass documents of r that were inserted, in order.
StoredCount(r) == Cardinality({i \in 1..Len(outcome[r]) : outcome[r][i] = "stored"})
StoredIndex(r, k) ==
    CHOOSE i \in 1..Len(outcome[r]) :
        /\ outcome[r][i] = "stored"
        /\ Cardinality({j \in 1..i : outcome[r][j] = "stored"}) = k

\* r2 ingested the URL and owner of r1 after r1 had ended, and its deletion
\* of the stale records met no failure of the table.
RanAfter(r1, r2) ==
    /\ r1 # r2
    /\ UrlRun(r1) /\ UrlRun(r2)
    /\ req[r1].text = req[r2].text /\ req[r1].userId = req[r2].userId
    /\ r1 \in before[r2]
    /\ pc[r2] = "done"
    /\ error[r2] \notin {"select failed", "delete failed"}

\* C1: after a URL was ingested twice in a row by the same user, the records
\* stored for (url, userId) are exactly the records the second run inserted,
\* one per inserted document: none of the first run or of earlier runs is
\* left and none is doubled.
C1_ReingestionReplaces ==
    \A r1 \in Requests : \A r2 \in Requests :
        RanAfter(r1, r2) =>
            LET kept == RecordsFor(store, req[r2].text, req[r2].userId)
            IN /\ {rec.id : rec \in kept} = {<<r2, k>> : k \in 1..StoredCount(r2)}
               /\ Cardinality(kept) = StoredCount(r2)
               /\ \A rec \in kept : rec.content = pass[r2][StoredIndex(r2, rec.id[2])].content

\* C1 witness: both runs inserted a record, and the table held a record of
\* (url, userId) before the first.
C1_Witness ==
    \E r1 \in Requests : \E r2 \in Requests :
        /\ RanAfter(r1, r2)
        /\ existing[r1] # {}
        /\ StoredCount(r1) > 0
        /\ StoredCount(r2) > 0

\* C2: the select of deleteExistingDocuments reads the records whose source
\* is the url and whose by is the userId, and the delete removes those
\* records and no other: a record that differs in source or in by stays in
\* the table as it is.
C2_DeletionFrame ==
    [][\A r \in Requests :
          /\ (pc[r] = "select" /\ pc'[r] \in {"delete", "fetch1"}) =>
                existing'[r] = {rec.id : rec \in RecordsFor(store, req[r].text, req[r].userId)}
          /\ (pc[r] = "delete" /\ pc'[r] = "fetch1") =>
                /\ \A rec \in store :
                      IF rec.source = req[r].text /\ rec.by = req[r].userId
                      THEN rec.id \in existing[r] => rec \notin store'
                      ELSE rec \in store'
                /\ store' \subseteq store]_vars

\* C2 witness: a deletion has removed the stale records and the table still
\* holds a record of the url by another owner and a record of the owner
\* from another source.
C2_Witness ==
    \E r \in Requests :
        /\ pc[r] = "fetch1"
        /\ existing[r] # {}
        /\ RecordsFor(store, req[r].text, req[r].userId) = {}
        /\ \E rec \in store : rec.source = req[r].text /\ rec.by # req[r].userId
        /\ \E rec \in store : rec.source # req[r].text /\ rec.by = req[r].userId

\* The state of the handler of r: 0 Idle, 1 Processing (no line enqueued
\* yet), 2 Streaming, 3 Terminal (the stream closed).
Phase(r) ==
    IF pc[r] = "idle" THEN 0
    ELSE IF closed[r] > 0 THEN 3
    ELSE IF events[r] = <<>> THEN 1 ELSE 2

IsTerminalEvent(e) ==
    \/ e.type = "error"
    \/ e.type = "percentage" /\ e.finite /\ e.value = 100

\* What C7 says of the stream of r in one state.
StreamShape(r) ==
    /\ closed[r] \in {0, 1}
    /\ closed[r] = 1 <=> pc[r] = "done"
    /\ pc[r] = "done" =>
          /\ events[r] # <<>>
          /\ IsTerminalEvent(events[r][Len(events[r])])
    /\ \A i \in 1..Len(events[r]) :
          events[r][i].type = "error" => (pc[r] = "done" /\ Len(events[r]) = 1)

\* C7: every ingestion stream ends with one terminal line, { percentage: 100 }
\* or { error }, never both; it is closed once, nothing is enqueued after
\* the close, and the handler goes Idle, Processing, Streaming, Terminal
\* and stays Terminal.
C7_OneTerminalEvent ==
    [][\A r \in Requests :
          /\ StreamShape(r)
          /\ StreamShape(r)'
          /\ Phase(r)' >= Phase(r)
          /\ Phase(r) = 0 => Phase(r)' \in {0, 1}
          /\ Phase(r) = 3 =>
                /\ pc'[r] = pc[r]
                /\ events'[r] = events[r]
                /\ closed'[r] = closed[r]]_vars

\* C7 witness: one request ended with { error }, the other with
\* { percentage: 100 } after progress lines.
C7_Witness ==
    \E r1 \in Requests : \E r2 \in Requests :
        /\ pc[r1] = "done" /\ pc[r2] = "done"
        /\ events[r1][Len(events[r1])].type = "error"
        /\ Len(events[r2]) >= 3
        /\ events[r2][Len(events[r2])].type = "percentage"

\* a <= b for two percentage values, Infinity above every number.
PercentageLeq(a, b) == ~b.finite \/ (a.finite /\ a.value <= b.value)

NoErrorEvent(r) == \A i \in 1..Len(events[r]) : events[r][i].type # "error"

\* C8 (as claimed): in a run that ends without an error line the percentages
\* never decrease and the last one is 100.
C8_ProgressMonotone ==
    \A r \in Requests :
        (pc[r] = "done" /\ NoErrorEvent(r)) =>
            /\ \A i \in 1..(Len(events[r]) - 1) :
                  PercentageLeq(events[r][i], events[r][i + 1])
            /\ events[r][Len(events[r])].finite
            /\ events[r][Len(events[r])].value = 100

\* C9 (as claimed): every percentage enqueued is an integer in 0..100.
C9_PercentageInRange ==
    \A r \in Requests : \A i \in 1..Len(events[r]) :
        events[r][i].type = "percentage" =>
            /\ events[r][i].finite
            /\ events[r][i].value \in 0..100

DocumentFailures == {"embedFailed", "insertFailed"}

\* C10: a document whose embedding or insert fails is not stored, the
\* documents after it are still taken and processed, no error line is
\* enqueued for it, and the run ends with { percentage: 100 }.
C10_FailureIsolated ==
    \A r \in Requests :
        /\ Len(outcome[r]) + Len(gen[r]) = Len(pass[r])
        /\ gen[r] # <<>> => pc[r] \in {"embed", "insert"}
        /\ {rec.id : rec \in {x \in store : x.id[1] = r}}
              \subseteq {<<r, k>> : k \in 1..StoredCount(r)}
        /\ StoredCount(r) + Cardinality({i \in 1..Len(outcome[r]) :
                                            outcome[r][i] \in DocumentFailures})
              <= Len(outcome[r])
        /\ (outcome[r] # <<>> /\ pc[r] \in {"catch", "done"}) =>
              /\ pc[r] = "done"
              /\ NoErrorEvent(r)
              /\ events[r][Len(events[r])].value = 100
              /\ Len(events[r]) = Len(pass[r]) + 1

\* C10 witness: the first document of a pass failed, the second was stored,
\* and the run ended with { percentage: 100 }.
C10_Witness ==
    \E r \in Requests :
        /\ pc[r] = "done"
        /\ Len(outcome[r]) = 2
        /\ outcome[r][1] \in DocumentFailures
        /\ outcome[r][2] = "stored"
        /\ \E rec \in store : rec.id = <<r, 1>> /\ rec.content = pass[r][2].content
        /\ events[r][Len(events[r])].value = 100


\* The number of whitespace-delimited words of s (space, newline and tab
\* all delimit).
WhitespaceWordCount(s) ==
    Cardinality({i \in 1..Len(s) :
                    /\ s[i] \notin Whitespace
                    /\ i = 1 \/ s[i - 1] \in Whitespace})

\* The text of s after the first " => ", s itself when it holds none.
AfterArrow(s) ==
    LET at == {i \in 1..(Len(s) - 3) : SubSeq(s, i, i + 3) = Arrow}
    IN IF at = {} THEN s ELSE SubSeq(s, Min(at) + 4, Len(s))

\* The chunk a stored record carries: the content of a record of text
\* ingestion, the content after the breadcrumb of a record of URL ingestion.
ChunkOfRecord(rec) ==
    IF isValidHttpUrl(rec.source) THEN AfterArrow(rec.content) ELSE rec.content

\* C11 (as claimed): no stored record has a content of fewer than 2
\* whitespace-delimited words, and no stored record carries a chunk that is
\* a single word, whether it came from text ingestion or URL ingestion.
C11_NoSingleWordStored ==
    \A rec \in store :
        /\ WhitespaceWordCount(rec.content) >= 2
        /\ WhitespaceWordCount(ChunkOfRecord(rec)) >= 2


\* The body of r fails the validation: no text, or isUrl with a text that
\* is no http or https URL.
FailsValidation(r) ==
    \/ req[r].text = <<>>
    \/ req[r].isUrl /\ ~isValidHttpUrl(req[r].text)

\* C22: a request whose body fails the validation goes to the catch at
\* once: its only line is the error line, it selects and deletes nothing,
\* fetches nothing, takes no document to embed or insert, and none of its
\* steps changes the table.
C22_ValidationFailure ==
    [][\A r \in Requests :
          (pc'[r] # "idle" /\ FailsValidation(r)') =>
              /\ pc'[r] \in {"catch", "done"}
              /\ pc[r] # pc'[r] => store' = store
              /\ existing'[r] = {}
              /\ attempt'[r] = 0
              /\ pass'[r] = <<>>
              /\ outcome'[r] = <<>>
              /\ \A rec \in store' : rec.id[1] # r
              /\ pc'[r] = "catch" => events'[r] = <<>>
              /\ pc'[r] = "done" =>
                    /\ Len(events'[r]) = 1
                    /\ events'[r][1].type = "error"
                    /\ closed'[r] = 1]_vars

\* C22 witness: a request with isUrl and a text that is no URL, and a
\* request without text, have both ended with their error line, the table
\* still holding the earlier records.
C22_Witness ==
    \E r1 \in Requests : \E r2 \in Requests :
        /\ pc[r1] = "done" /\ pc[r2] = "done"
        /\ req[r1].isUrl /\ req[r1].text = PlainText
        /\ events[r1] = <<[type |-> "error", message |-> "Invalid URL provided"]>>
        /\ req[r2].text = <<>> /\ req[r2].userId \in Users
        /\ events[r2] = <<[type |-> "error", message |-> "Either text or URL must be provided"]>>
        /\ store = EarlierRecords

\* C23: no exception escapes the start routine of the stream, also when the
\* caller has cancelled the response stream before the handler enqueues its
\* last line or closes the stream: every failure ends in the catch block's
\* { error } line and the close of the finally block.
C23_NoExceptionEscapes ==
    \A r \in Requests : pc[r] # "escaped"

\* A step of request r that calls getEmbedding for a document: the second
\* pass takes its first document, or the loop goes on to the next one.
StartsEmbedding(r) ==
    /\ pc'[r] = "embed"
    /\ pc[r] # "embed" \/ gen'[r] # gen[r]

\* C24: once the caller has disconnected, the run starts no further
\* embedding call (and with it no insert) for the documents that remain in
\* its second pass.  The insert of a remaining document comes after its
\* embedding call, so the first step against the claim is an embedding call.
C24_NoWorkAfterDisconnect ==
    [][\A r \in Requests : cancelled[r] => ~StartsEmbedding(r)]_vars

\* Request r ingests a text: its body has a text and isUrl is not set.
TextRun(r) == pc[r] # "idle" /\ req[r].text # <<>> /\ ~req[r].isUrl

\* Request r takes a step.
StepOf(r) == pc'[r] # pc[r] \/ gen'[r] # gen[r]

\* The records the table holds from request r.
RecordsFrom(table, r) == {rec \in table : rec.id[1] = r}

\* Both requests ingested the same text for the same user and have ended.
SameTextTwice(r1, r2) ==
    /\ r1 # r2
    /\ pc[r1] = "done" /\ pc[r2] = "done"
    /\ TextRun(r1) /\ TextRun(r2)
    /\ req[r1].text = req[r2].text
    /\ req[r1].userId = req[r2].userId

\* C25: a text ingestion never deletes a stored record: every step of a
\* text request leaves each record of the table in it, unchanged; and when
\* the same text was ingested twice for the same user, the table holds the
\* records of both runs, one for each document either run stored.
C25_TextIngestionAppends ==
    [][/\ \A r \in Requests : (TextRun(r)' /\ StepOf(r)) => store \subseteq store'
       /\ \A r1 \in Requests : \A r2 \in Requests :
             SameTextTwice(r1, r2)' =>
                /\ Cardinality(RecordsFrom(store', r1)) = StoredCount(r1)'
                /\ Cardinality(RecordsFrom(store', r2)) = StoredCount(r2)'
                /\ \A rec \in RecordsFrom(store', r1) \cup RecordsFrom(store', r2) :
                      /\ rec.source = req'[r1].userName
                      /\ rec.by = req'[r1].userId]_vars

\* C25 witness: the same two-line text was ingested twice for u1 over a
\* table that held records; the earlier records are all there, and each run
\* left its one record, the two with equal content.
C25_Witness ==
    /\ SameTextTwice("r1", "r2")
    /\ req["r1"].text = PlainText /\ req["r1"].userId = "u1"
    /\ EarlierRecords \subseteq store
    /\ Cardinality(store) = Cardinality(EarlierRecords) + 2
    /\ \E a \in RecordsFrom(store, "r1") : \E b \in RecordsFrom(store, "r2") :
          /\ a.content = b.content
          /\ a.source = UserNameOf("u1") /\ b.source = UserNameOf("u1")
          /\ a.by = "u1" /\ b.by = "u1"


\* The source the documents of request r carry: the url of a URL
\* ingestion, the userName of a text ingestion.
SourceOf(r) == IF req[r].isUrl THEN req[r].text ELSE req[r].userName

\* C26: every record inserted by a request has, beside its content, the
\* metadata fields source and by and no other, by being the userId of the
\* request and source the url (URL ingestion) or the userName (text
\* ingestion); the documents the generators yield have a source and no by.
\* A two-line text of two short sentences, which the chunker does not split,
\* whose document meets no failure ends with exactly one stored record.
C26_MetadataAtInsertion ==
    \A r \in Requests :
        /\ \A rec \in RecordsFrom(store, r) :
              /\ DOMAIN rec = {"id", "content", "source", "by"}
              /\ rec.by = req[r].userId
              /\ rec.source = SourceOf(r)
        /\ \A i \in 1..Len(pass[r]) :
              /\ DOMAIN pass[r][i] = {"content", "source"}
              /\ pass[r][i].source = SourceOf(r)
        /\ \A i \in 1..Len(gen[r]) : DOMAIN gen[r][i] = {"content", "source"}
        /\ (/\ pc[r] = "done" /\ ~req[r].isUrl /\ req[r].text = PlainText
            /\ \A i \in 1..Len(outcome[r]) : outcome[r][i] \notin DocumentFailures)
              => /\ Len(pass[r]) = 1
                 /\ Cardinality(RecordsFrom(store, r)) = 1
                 /\ \A rec \in RecordsFrom(store, r) : rec.content = pass[r][1].content

\* C26 witness: a URL ingestion of u2 and a text ingestion of u1 have both
\* ended; the text request left one record with source the userName of u1
\* and by u1, the URL request a record with source the url and by u2.
C26_Witness ==
    /\ pc["r1"] = "done" /\ pc["r2"] = "done"
    /\ req["r1"].isUrl /\ req["r1"].userId = "u2"
    /\ ~req["r2"].isUrl /\ req["r2"].text = PlainText /\ req["r2"].userId = "u1"
    /\ \E rec \in store : rec.id[1] = "r1" /\ rec.source = UrlText /\ rec.by = "u2"
    /\ Cardinality(RecordsFrom(store, "r2")) = 1
    /\ \E rec \in store :
          rec.id[1] = "r2" /\ rec.source = UserNameOf("u1") /\ rec.by = "u1"


\* Requests r1 and r2 ingest the same url for the same user, and neither
\* selected a record of the other for deletion: each ran its select before
\* the other inserted.
RacingRuns(r1, r2) ==
    /\ r1 # r2
    /\ UrlRun(r1) /\ UrlRun(r2)
    /\ req[r1].text = req[r2].text
    /\ req[r1].userId = req[r2].userId
    /\ \A id \in existing[r1] : id[1] # r2
    /\ \A id \in existing[r2] : id[1] # r1

\* C29: two concurrent ingestions of the same (url, userId) are not
\* mutually excluded: when each has selected its stale records before the
\* other inserted, nothing removes the records of either, and the table
\* holds every record both requests inserted.
C29_ConcurrentRunsDuplicate ==
    \A r1 \in Requests : \A r2 \in Requests :
        RacingRuns(r1, r2) =>
            /\ Cardinality(RecordsFrom(store, r1)) = StoredCount(r1)
            /\ Cardinality(RecordsFrom(store, r2)) = StoredCount(r2)

\* C29 witness: both requests for (http://x, u1) selected the one stale
\* record, both have ended, and the table holds a record of each with the
\* same content, source and owner: more than either run alone leaves.
C29_Witness ==
    /\ RacingRuns("r1", "r2")
    /\ pc["r1"] = "done" /\ pc["r2"] = "done"
    /\ existing["r1"] = {<<"r0", 1>>} /\ existing["r2"] = {<<"r0", 1>>}
    /\ \E a \in RecordsFrom(store, "r1") : \E b \in RecordsFrom(store, "r2") :
          /\ a.content = b.content
          /\ a.source = b.source
          /\ a.by = b.by
    /\ Cardinality(RecordsFor(store, req["r1"].text, req["r1"].userId))
          = StoredCount("r1") + StoredCount("r2")
    /\ StoredCount("r1") >= 1 /\ StoredCount("r2") >= 1


\* The positions of a request up to the end of its first pass, those between
\* the passes included, and the positions of its second pass.
UpToFirstPass == {"idle", "select", "delete", "fetch1", "count", "fetch2", "recount"}
BetweenPasses == {"fetch2", "recount"}
SecondPass == {"embed", "insert"}

\* C30: the two generator passes of a request run one after the other: up to
\* the end of the first pass the request has taken no document to embed,
\* inserted nothing and sent no progress line; the second pass is entered
\* only from the end of the first; and totalDocuments is set by the step
\* that ends the first pass and by no step of the second.
C30_PassesInSequence ==
    [][\A r \in Requests :
          /\ pc'[r] \in UpToFirstPass =>
                /\ gen'[r] = <<>> /\ outcome'[r] = <<>>
                /\ documentCount'[r] = 0
                /\ events'[r] = <<>>
                /\ RecordsFrom(store', r) = {}
          /\ (pc'[r] \in SecondPass /\ pc[r] \notin SecondPass) => pc[r] \in BetweenPasses
          /\ pc[r] \in SecondPass => totalDocuments'[r] = totalDocuments[r]
          /\ totalDocuments'[r] # totalDocuments[r] =>
                pc[r] \in {"fetch1", "count"} /\ pc'[r] \in BetweenPasses]_vars

\* C30 witness: a request whose first pass counted two documents is in its
\* second pass, one document done and its progress line sent, one to go.
C30_Witness ==
    \E r \in Requests :
        /\ pc[r] = "embed"
        /\ totalDocuments[r] = 2
        /\ documentCount[r] = 1
        /\ Len(gen[r]) = 1
        /\ events[r] = <<[type |-> "percentage", finite |-> TRUE, value |-> 50]>>


\* The percentage p is round(k / total * 100): the integer v with
\* v - 1/2 <= 100 k / total < v + 1/2, and Infinity when total is 0.
IsRounded(p, k, total) ==
    IF total = 0 THEN ~p.finite
    ELSE /\ p.finite
         /\ 2 * total * p.value - total <= 200 * k
         /\ 200 * k < 2 * total * p.value + total

\* C31: while the output stream is open, each document of the second pass
\* is followed by exactly one progress line, whether it was stored, rejected
\* by the two-word filter, or failed to embed or insert, and the k-th
\* progress line of the pass carries round(k / totalDocuments * 100).
C31_OneProgressPerDocument ==
    \A r \in Requests :
        (~cancelled[r] /\ pc[r] \in {"embed", "insert", "final"}) =>
            /\ Len(outcome[r]) + Len(gen[r]) = Len(pass[r])
            /\ documentCount[r] = Len(outcome[r])
            /\ Len(events[r]) = Len(outcome[r])
            /\ \A k \in 1..Len(events[r]) :
                  /\ events[r][k].type = "percentage"
                  /\ IsRounded(events[r][k], k, totalDocuments[r])

\* C31 witness: on an open stream, a pass counted as two documents has had
\* one document fail and one stored, and sent the lines 50 and 100.
C31_Witness ==
    \E r \in Requests :
        /\ ~cancelled[r] /\ pc[r] = "final"
        /\ totalDocuments[r] = 2
        /\ outcome[r] \in {<<"embedFailed", "stored">>, <<"insertFailed", "stored">>}
        /\ events[r] = <<[type |-> "percentage", finite |-> TRUE, value |-> 50],
                         [type |-> "percentage", finite |-> TRUE, value |-> 100]>>


\* The records request r selected for deletion that the table still holds.
StaleLeft(r) == {rec \in store : rec.id \in existing[r]}

\* The fetch of request r failed on all its retries.
FetchGaveUp(r) == error[r] = "Failed to fetch after 3 attempts"

\* C35: in a URL ingestion the deletion of the stale records is complete
\* before the first fetch.  So when the fetch fails on all retries, in the
\* first pass or in the second, the run ends with an error line, having
\* inserted nothing, while the records stored before for its url and user
\* are deleted, and they are not restored.
C35_DeletedBeforeFetch ==
    \A r \in Requests :
        /\ (UrlRun(r) /\ pc[r] \in {"fetch1", "fetch2", "embed", "insert", "final"}) =>
              StaleLeft(r) = {}
        /\ attempt[r] > 0 => StaleLeft(r) = {}
        /\ FetchGaveUp(r) =>
              /\ UrlRun(r)
              /\ StaleLeft(r) = {}
              /\ RecordsFrom(store, r) = {}
              /\ pc[r] \in {"catch", "done", "escaped"}
              /\ pc[r] = "done" => events[r] = <<ErrorEvent(error[r])>> /\ closed[r] = 1

\* C35 witness: a URL ingestion of u1 selected and deleted the stale record,
\* counted two documents in its first pass, and its second fetch failed
\* three times: it has ended with the error line, and the table holds the
\* earlier records less the deleted one.
C35_Witness ==
    \E r \in Requests :
        /\ pc[r] = "done" /\ UrlRun(r) /\ FetchGaveUp(r)
        /\ existing[r] = {<<"r0", 1>>}
        /\ totalDocuments[r] = 2
        /\ store = {rec \in EarlierRecords : rec.id # <<"r0", 1>>}
        /\ Len(events[r]) = 1 /\ events[r][1].type = "error"


\* content holds " => ".
HasArrow(content) == \E i \in 1..(Len(content) - 3) : SubSeq(content, i, i + 3) = Arrow

\* C38: every document of generateDocumentsFromUrl is '<breadcrumb> =>
\* <chunk>', which content.split(' ') divides into three parts at least, so
\* insertDocument's check of fewer than 2 parts rejects no document of a
\* URL ingestion, whatever its chunk: a document that is rejected is one of
\* a text ingestion.
C38_UrlDocumentsPassTheCheck ==
    \A r \in Requests :
        /\ UrlRun(r) =>
              /\ \A i \in 1..Len(pass[r]) :
                    HasArrow(pass[r][i].content) /\ WordCount(pass[r][i].content) >= 3
              /\ \A i \in 1..Len(outcome[r]) : outcome[r][i] # "rejected"
        /\ (\E i \in 1..Len(outcome[r]) : outcome[r][i] = "rejected") => TextRun(r)

\* C38 witness: a URL ingestion has stored a document whose chunk is the
\* single word c.
C38_Witness ==
    \E r \in Requests :
        /\ UrlRun(r) /\ pc[r] = "done"
        /\ \E i \in 1..Len(outcome[r]) :
              /\ outcome[r][i] = "stored"
              /\ AfterArrow(pass[r][i].content) = <<"c">>
              /\ \E rec \in store : rec.content = pass[r][i].content /\ rec.id[1] = r


\* ------------------------------------------------- the chunker, SpecChunk
Texts == UNION {[1..n -> Alphabet] : n \in 0..MaxLen}

ChunkInit ==
    /\ cpc = "input"
    /\ text \in Texts
    /\ maxSize \in 1..MaxSize
    /\ overlap \in 0..(maxSize + 2)
    /\ documents = <<>>
    /\ loops = [hard |-> 0, seed |-> 0]
    /\ store = {}
    /\ IngestIdle
    /\ SideIdle

CallSplit ==
    /\ cpc = "input"
    /\ LET r == SplitRun(text, maxSize, overlap)
       IN /\ documents' = r.documents
          /\ loops' = [hard |-> r.hard, seed |-> r.seed]
    /\ cpc' = "done"
    /\ UNCHANGED <<text, maxSize, overlap>>
    /\ UNCHANGED <<ingestVars, sideVars>>

ChunkNext == CallSplit

SpecChunk == ChunkInit /\ [][ChunkNext]_vars

\* ------------------------------------------------ claims on the chunker
Cells(d) == {d[i] : i \in 1..Len(d)}

\* Input positions that hold a non-whitespace character.
InkPositions(t) == {p \in 1..Len(t) : t[p] \notin Whitespace}

\* The whitespace-delimited words of t, each as its first and last position.
InputWords(t) ==
    {w \in (1..Len(t)) \X (1..Len(t)) :
        /\ w[1] <= w[2]
        /\ \A k \in w[1]..w[2] : t[k] \notin Whitespace
        /\ w[1] = 1 \/ t[w[1] - 1] \in Whitespace
        /\ w[2] = Len(t) \/ t[w[2] + 1] \in Whitespace}

\* Chunk d holds the input word w whole, as a whitespace-delimited word.
HoldsWord(t, d, w) ==
    \E i \in 1..Len(d) :
        /\ i + (w[2] - w[1]) <= Len(d)
        /\ \A k \in 0..(w[2] - w[1]) : d[i + k] = w[1] + k
        /\ i = 1 \/ Char(t, d[i - 1]) \in Whitespace
        /\ i + (w[2] - w[1]) = Len(d) \/ Char(t, d[i + (w[2] - w[1]) + 1]) \in Whitespace

\* Index of the first chunk that holds input position p (0 when none does):
\* the later chunks that hold p hold it as overlap duplication.
FirstChunkOf(docs, p) ==
    LET at == {j \in 1..Len(docs) : p \in Cells(docs[j])}
    IN IF at = {} THEN 0 ELSE Min(at)

\* A chunk that is one indivisible token: it holds no whitespace.
SingleToken(t, d) == \A i \in 1..Len(d) : Char(t, d[i]) \notin Whitespace

\* C3 (as claimed): every chunk returned by splitTextIntoDocuments has length
\* at most maxSize, unless it is one single indivisible token.
C3_ChunkWithinMaxSize ==
    cpc = "done" =>
        \A j \in 1..Len(documents) :
            Len(documents[j]) <= maxSize \/ SingleToken(text, documents[j])

\* C4 (as claimed, words longer than maxSize left aside because the hard
\* split divides them on purpose): every whitespace-delimited word of the
\* input occurs whole in at least one returned chunk.
C4_EveryWordInSomeChunk ==
    cpc = "done" =>
        \A w \in InputWords(text) :
            (w[2] - w[1] + 1 <= maxSize) =>
                \E j \in 1..Len(documents) : HoldsWord(text, documents[j], w)

\* C5 (as claimed): chunks are returned in input order: for input positions
\* p < q, the chunk that first carries p is not after the chunk that first
\* carries q.
C5_ChunksInInputOrder ==
    cpc = "done" =>
        \A p \in InkPositions(text) : \A q \in InkPositions(text) :
            p < q => FirstChunkOf(documents, p) <= FirstChunkOf(documents, q)

\* C6: a call with overlap >= maxSize ends, each of its loops within the
\* iterations its progress allows (the hard split removes a character per
\* iteration, the overlap loop reclaims at least 1 of at most maxSize - 1
\* per iteration and runs once per flushed unit), and returns the chunks of
\* the call with overlap = maxSize - 1.
C6_OverlapClamped ==
    (cpc = "done" /\ overlap >= maxSize) =>
        /\ documents = SplitRun(text, maxSize, maxSize - 1).documents
        /\ loops.hard <= Len(text)
        /\ loops.seed <= Len(text) * (maxSize - 1)

\* C6 witness: a call with overlap >= maxSize in which both loops ran.
C6_Witness ==
    /\ cpc = "done"
    /\ overlap >= maxSize
    /\ loops.hard > 0
    /\ loops.seed > 0
    /\ Len(documents) >= 3


\* C27: no chunk returned by splitTextIntoDocuments is empty after trimming,
\* for every text, every maxSize >= 1 and every overlap >= 0 (an overlap of 0
\* or 1, where the overlap seed is empty or one word, among them), and the
\* empty text yields no chunk.
C27_NoEmptyChunk ==
    cpc = "done" =>
        /\ \A j \in 1..Len(documents) :
              \E i \in 1..Len(documents[j]) : Char(text, documents[j][i]) \notin Whitespace
        /\ text = <<>> => documents = <<>>

\* C27 witness: a call with overlap 1 that flushed a chunk, ran the overlap
\* loop and returned two chunks or more.
C27_Witness ==
    /\ cpc = "done"
    /\ overlap = 1 /\ maxSize = 3
    /\ loops.seed >= 1
    /\ Len(documents) >= 2

\* The state of the for loop before its i-th iteration, with the clamped
\* overlap o.
LoopStateBefore(t, i, m, o) ==
    ChunkLoop(t, SubSeq(MatchAll(t, 1), 1, i - 1), 1,
              [documents |-> <<>>, currentDoc |-> <<>>, hard |-> 0, seed |-> 0], m, o)

\* The words ws, each followed by one space.
RECURSIVE WordsWithSpaces(_)
WordsWithSpaces(ws) ==
    IF ws = <<>> THEN <<>> ELSE ws[1] \o <<0>> \o WordsWithSpaces(Tail(ws))

\* The last j words of ws.
LastWords(ws, j) == SubSeq(ws, Len(ws) - j + 1, Len(ws))

\* seed is what the claim says follows a flush of buffer: the last j of the
\* buffer's space-separated words, whole, each followed by a space, j being
\* the first count at which the reclaimed size reaches o, or all the words.
SeededFrom(t, seed, buffer, o) ==
    LET ws == SplitOnSpace(t, buffer)
    IN \E j \in 0..Len(ws) :
         /\ seed = WordsWithSpaces(LastWords(ws, j))
         /\ j = Len(ws) \/ Len(seed) >= o
         /\ j > 0 => /\ Len(WordsWithSpaces(LastWords(ws, j - 1))) < o
                     /\ Len(seed) < o + Len(ws[Len(ws) - j + 1]) + 1

\* The i-th iteration of the for loop does what the claim says of it.
FlushesAndSeeds(t, i, m, o) ==
    LET pre == LoopStateBefore(t, i, m, o)
        hs == HardSplit(t, Trim(t, MatchAll(t, 1)[i]), m, pre.documents, 0)
        post == LoopStateBefore(t, i + 1, m, o)
    IN IF Len(pre.currentDoc) + Len(hs.sentence) > m /\ Len(pre.currentDoc) > 0
       THEN /\ post.documents = Append(hs.documents, Trim(t, pre.currentDoc))
            /\ \E n \in 0..Len(post.currentDoc) :
                  /\ SubSeq(post.currentDoc, n + 1, Len(post.currentDoc))
                        = hs.sentence \o <<0>>
                  /\ SeededFrom(t, SubSeq(post.currentDoc, 1, n), pre.currentDoc, o)
       ELSE /\ post.documents = hs.documents
            /\ post.currentDoc = pre.currentDoc \o hs.sentence \o <<0>>

\* C32: when adding the next unit would exceed maxSize and the buffer is not
\* empty, the buffer is emitted as a chunk and the next buffer starts with
\* whole space-separated words taken off the end of the emitted buffer, never
\* with text of the new unit; words are taken, each counting its length plus
\* 1, until the reclaimed size reaches overlap or no word remains, so the
\* seed is shorter than overlap plus the length of the last word taken plus 1.
\* Otherwise the unit is appended to the buffer and nothing is emitted.
C32_OverlapSeed ==
    cpc = "done" =>
        /\ \A i \in 1..Len(MatchAll(text, 1)) :
              FlushesAndSeeds(text, i, maxSize,
                              IF overlap < maxSize - 1 THEN overlap ELSE maxSize - 1)
        /\ documents = LastChunk(text, LoopStateBefore(text, Len(MatchAll(text, 1)) + 1, maxSize,
                                   IF overlap < maxSize - 1 THEN overlap ELSE maxSize - 1)).documents

\* C32 witness: 'a a a' with maxSize 3 and overlap 2: the buffer 'a a ' is
\* emitted when the third unit comes, and the next buffer is seeded with its
\* empty last word and the word before it, the first word being left.
C32_Witness ==
    /\ cpc = "done"
    /\ text = <<"a", " ", "a", " ", "a">> /\ maxSize = 3 /\ overlap = 2
    /\ loops.seed = 2
    /\ Strings(text, documents) = <<<<"a", " ", "a">>, <<"a", " ", " ", "a">>>>

\* --------------------------------- generateDocumentsFromUrl alone, SpecUrl
\* The elements a page is made of.
UrlElements ==
    {[tag |-> "h1", text |-> <<"A">>], [tag |-> "h1", text |-> <<"C">>],
     [tag |-> "h2", text |-> <<"B">>], [tag |-> "h3", text |-> <<"D">>],
     [tag |-> "p", text |-> <<"x", " ", "y">>]}

UrlPages ==
    {[hasTitle |-> b, title |-> <<"T">>, elements |-> e] :
        b \in BOOLEAN, e \in UNION {[1..n -> UrlElements] : n \in 0..MaxElements}}

UrlInit ==
    /\ upc = "input"
    /\ uhtml \in UrlPages
    /\ ucontent = <<>>
    /\ ust = [yielded |-> <<>>, headingStack |-> <<>>, currentDocument |-> <<>>,
              isNewSection |-> TRUE]
    /\ uunder = {}
    /\ store = {}
    /\ IngestIdle
    /\ ChunkIdle
    /\ FetchIdle
    /\ TextIdle
    /\ ChatIdle
    /\ ReaderIdle
    /\ AddIdle

\* const html = await fetchWebContent(url); const processedContent = processHTML(html)
UrlBegin ==
    /\ upc = "input"
    /\ ucontent' = processHTML(uhtml)
    /\ upc' = "loop"
    /\ UNCHANGED <<uhtml, ust, uunder>>
    /\ UNCHANGED besideUrl

\* One iteration of for (const { tag, text } of processedContent).
UrlTake ==
    /\ upc = "loop"
    /\ ucontent # <<>>
    /\ ust' = UrlStep(UrlText, ust, Head(ucontent))
    /\ ucontent' = Tail(ucontent)
    /\ uunder' = (IF ust'.currentDocument = <<>> THEN {} ELSE uunder)
                  \cup (IF Len(ust'.currentDocument) > Len(ust.currentDocument)
                        THEN {ust'.headingStack} ELSE {})
    /\ UNCHANGED <<upc, uhtml>>
    /\ UNCHANGED besideUrl

\* The loop is over: the remaining content is yielded and the generator ends.
UrlEnd ==
    /\ upc = "loop"
    /\ ucontent = <<>>
    /\ ust' = [ust EXCEPT !.yielded = UrlRemainder(UrlText, ust)]
    /\ upc' = "done"
    /\ UNCHANGED <<uhtml, ucontent, uunder>>
    /\ UNCHANGED besideUrl

UrlNext == UrlBegin \/ UrlTake \/ UrlEnd

SpecUrl == UrlInit /\ [][UrlNext]_vars

\* ------------------------------------------- claims on the URL generator
\* The stepwise run yields what generateDocumentsFromUrl returns.
UrlRunAgrees ==
    upc = "done" => ust.yielded = generateDocumentsFromUrl(UrlText, uhtml)

\* The contents of the documents docs.
Contents(docs) == [i \in 1..Len(docs) |-> docs[i].content]

\* The page titled T with h1 A, h2 B, text, h1 C, text.
PageABC ==
    [hasTitle |-> TRUE, title |-> <<"T">>,
     elements |-> <<[tag |-> "h1", text |-> <<"A">>], [tag |-> "h2", text |-> <<"B">>],
                    [tag |-> "p", text |-> <<"x", " ", "y">>],
                    [tag |-> "h1", text |-> <<"C">>],
                    [tag |-> "p", text |-> <<"x", " ", "y">>]>>]

\* C12: on a heading of level n the new heading stack is the first n entries
\* of the old one (all of it when it has fewer) followed by the heading
\* text; and the page T with h1 A, h2 B, h1 C yields the text under B with
\* the breadcrumb "T > A > B" and the text under C with "T > C".
C12_HeadingStackTruncated ==
    [][/\ (upc = "loop" /\ ucontent # <<>> /\ Head(ucontent).tag \in HeadingTags) =>
            LET old == ust.headingStack
                new == ust'.headingStack
                k == Min({HeadingLevel(Head(ucontent).tag), Len(old)})
            IN /\ Len(new) = k + 1
               /\ new[k + 1] = Head(ucontent).text
               /\ \A i \in 1..k : new[i] = old[i]
       /\ (upc' = "done" /\ uhtml = PageABC) =>
            Contents(ust'.yielded) =
                << <<"T", " ", ">", " ", "A", " ", ">", " ", "B", " ", "=", ">", " ", "x", " ", "y">>,
                   <<"T", " ", ">", " ", "C", " ", "=", ">", " ", "x", " ", "y">> >>]_vars

\* C12 witness: the run on the page T, h1 A, h2 B, h1 C has ended with its
\* two documents, the stack being T, C.
C12_Witness ==
    /\ upc = "done"
    /\ uhtml = PageABC
    /\ Len(ust.yielded) = 2
    /\ ust.headingStack = << <<"T">>, <<"C">> >>

\* The documents a step added to the yielded ones.
NewlyYielded == SubSeq(ust'.yielded, Len(ust.yielded) + 1, Len(ust'.yielded))

\* What the documents yielded for the buffer must be: one per chunk of the
\* trimmed buffer, in order, with the breadcrumb of the stack and the url.
ExpectedDocuments(headingStack, buffer) ==
    LET chunks == splitTextIntoDocuments(TrimStr(buffer), DefaultMaxSize, DefaultOverlap)
    IN [i \in 1..Len(chunks) |->
           [content |-> Join(headingStack, Crumb) \o Arrow \o chunks[i], source |-> UrlText]]

\* C13: every document yielded has source = url and content = heading stack
\* joined by " > ", then " => ", then the chunk, the stack being the one
\* under which the text of the buffer was added: a heading flushes the
\* buffer before the stack changes, and the end of the loop flushes what
\* remains with the final stack.
C13_BreadcrumbOfAccumulation ==
    [][/\ Len(ust'.yielded) >= Len(ust.yielded)
       /\ SubSeq(ust'.yielded, 1, Len(ust.yielded)) = ust.yielded
       /\ ust.currentDocument # <<>> => uunder = {ust.headingStack}
       /\ NewlyYielded # <<>> =>
             /\ NewlyYielded = ExpectedDocuments(ust.headingStack, ust.currentDocument)
             /\ \/ upc' = "done"
                \/ Head(ucontent).tag \in HeadingTags /\ ust'.currentDocument = <<>>
       /\ (TrimStr(ust.currentDocument) # <<>> /\ ust'.headingStack # ust.headingStack) =>
             NewlyYielded # <<>>
       /\ (TrimStr(ust.currentDocument) # <<>> /\ upc' = "done") =>
             NewlyYielded # <<>>]_vars

\* C13 witness: a page whose first section was flushed by a heading and whose
\* last section was flushed at the end, each with its own breadcrumb.
C13_Witness ==
    /\ upc = "done"
    /\ Len(ust.yielded) >= 2
    /\ ust.yielded[1].content # ust.yielded[Len(ust.yielded)].content
    /\ ust.yielded[Len(ust.yielded)].content =
          Join(ust.headingStack, Crumb) \o Arrow \o <<"x", " ", "y">>
    /\ Len(ust.headingStack) >= 3


\* The title processHTML yields for the page of the run.
TitleOf(html) == processHTML(html)[1].text

\* The run has taken the title element.
TitleTaken(pos, content, html) ==
    pos = "done" \/ (pos = "loop" /\ Len(content) < Len(processHTML(html)))

\* The step takes a heading element.
TakesHeading ==
    /\ upc = "loop" /\ ucontent # <<>> /\ ucontent' = Tail(ucontent)
    /\ Head(ucontent).tag \in HeadingTags

\* What C39 says of one step.
StackStep ==
    /\ TitleTaken(upc', ucontent', uhtml') =>
          /\ Len(ust'.headingStack) \in 1..7
          /\ ust'.headingStack[1] = TitleOf(uhtml')
    /\ TakesHeading =>
          /\ Len(ust'.headingStack) >= 2
          /\ Len(ust'.headingStack) <= HeadingLevel(Head(ucontent).tag) + 1
          /\ ust'.headingStack[Len(ust'.headingStack)] = Head(ucontent).text
          /\ ust'.currentDocument = <<>>

\* C39: in one run of generateDocumentsFromUrl, once the title element is
\* taken the heading stack is never empty, its first entry is the page
\* title and its length is between 1 and 7; right after a heading of level
\* n its length is between 2 and n + 1 and its last entry is the heading's
\* text.  The step of a heading adds nothing to the section buffer, which
\* is empty after it: the heading's text goes to the stack only.
C39_HeadingStackShape == [][StackStep]_vars

\* C39 witness: the h3 D was taken right under the title T, and the stack
\* is T, D: shorter than 3 + 1.
C39_Witness ==
    /\ upc = "loop"
    /\ Len(processHTML(uhtml)) >= 2
    /\ processHTML(uhtml)[2] = [tag |-> "h3", text |-> <<"D">>]
    /\ Len(ucontent) = Len(processHTML(uhtml)) - 2
    /\ ust.headingStack = <<(<<"T">>), <<"D">>>>
    /\ ust.currentDocument = <<>>

\* ------------------------------------------------ processHTML alone, SpecHtml
\* Pages whose title and elements have blank, padded and multi-line texts.
HtmlTitles == {<<"T">>, <<>>, <<" ", "T", " ">>}

HtmlElements ==
    {[tag |-> "li", text |-> <<" ", "a", " ", " ", "b">>],
     [tag |-> "p", text |-> <<" ">>],
     [tag |-> "p", text |-> <<>>],
     [tag |-> "h2", text |-> <<"B">>],
     [tag |-> "p", text |-> <<"x", "\n", "y">>]}

HtmlPages ==
    {[hasTitle |-> b, title |-> t, elements |-> e] :
        b \in BOOLEAN, t \in HtmlTitles,
        e \in UNION {[1..n -> HtmlElements] : n \in 0..MaxHtmlElements}}

HtmlInit ==
    /\ upc = "input"
    /\ uhtml \in HtmlPages
    /\ ucontent = <<>>
    /\ ust = [yielded |-> <<>>, headingStack |-> <<>>, currentDocument |-> <<>>,
              isNewSection |-> TRUE]
    /\ uunder = {}
    /\ store = {}
    /\ IngestIdle
    /\ ChunkIdle
    /\ FetchIdle
    /\ TextIdle
    /\ ChatIdle
    /\ ReaderIdle
    /\ AddIdle

SpecHtml == HtmlInit /\ [][UrlNext]_vars

\* ------------------------------------------------- claims on processHTML
\* The text has a character that is no whitespace.
HasInk(s) == \E i \in 1..Len(s) : s[i] \notin Whitespace

\* The positions of the elements whose text is not blank, and the k-th of them.
KeptPositions(elements) == {i \in 1..Len(elements) : HasInk(elements[i].text)}

KeptAt(elements, k) ==
    CHOOSE i \in KeptPositions(elements) :
        Cardinality({j \in KeptPositions(elements) : j <= i}) = k

\* content is what the claim says processHTML yields for the page html.
TitleThenElements(content, html) ==
    /\ Len(content) = 1 + Cardinality(KeptPositions(html.elements))
    /\ content[1].tag = "title"
    /\ content[1].text = IF html.hasTitle THEN TrimStr(html.title) ELSE NoTitle
    /\ \A k \in 2..Len(content) :
          LET el == html.elements[KeptAt(html.elements, k - 1)]
          IN /\ content[k].tag = el.tag
             /\ content[k].tag \in HeadingTags \cup {"p", "li"}
             /\ content[k].text # <<>>
             /\ content[k].text = CollapseWhitespace(TrimStr(el.text))

\* C28: processHTML yields exactly one title element and yields it first,
\* with the text 'No Title' when the page has no title element, and yields
\* it also when its text is empty; then come the matched h1..h6, p and li
\* elements in document order, none of them with empty text.
C28_TitleThenElements ==
    [][upc = "input" => TitleThenElements(ucontent', uhtml)]_vars

\* C28 witness: processHTML has returned for a page whose title is empty and
\* whose three elements are a list item, a blank paragraph and a heading: the
\* empty title, the list item with its whitespace collapsed, the heading.
C28_Witness ==
    /\ upc = "loop"
    /\ uhtml.hasTitle /\ uhtml.title = <<>>
    /\ uhtml.elements = <<[tag |-> "li", text |-> <<" ", "a", " ", " ", "b">>],
                          [tag |-> "p", text |-> <<" ">>],
                          [tag |-> "h2", text |-> <<"B">>]>>
    /\ ucontent = <<[tag |-> "title", text |-> <<>>],
                    [tag |-> "li", text |-> <<"a", " ", "b">>],
                    [tag |-> "h2", text |-> <<"B">>]>>

\* --------------------------------- generateDocumentsFromText alone, SpecText
\* A line that all but fills the buffer: with the line feed that follows it
\* the buffer is 1998 long, so a line of 2 characters brings the sum to the
\* limit of 2000 and a line of 3 characters brings it above.
LongLine == [i \in 1..1997 |-> "."]

ShortLines == {<<" ">>, <<"b", "c">>, <<"b", " ", "c">>}

\* lines.join('\n')
JoinLines(ls) == Join(ls, <<"\n">>)

\* Texts of up to MaxTextLines lines, the long line in the first place only.
TextInputs ==
    {JoinLines(ls) :
        ls \in {l \in UNION {[1..n -> ShortLines \cup {LongLine}] : n \in 0..MaxTextLines} :
                   \A i \in 2..Len(l) : l[i] # LongLine}}

TextInit ==
    /\ tpc = "input"
    /\ tin \in {[text |-> t, userName |-> UserNameOf("u1")] : t \in TextInputs}
    /\ tlines = <<>>
    /\ tst = [yielded |-> <<>>, currentDocument |-> <<>>]
    /\ store = {}
    /\ IngestIdle
    /\ ChunkIdle
    /\ UrlIdle
    /\ FetchIdle
    /\ ChatIdle
    /\ ReaderIdle
    /\ AddIdle

\* let currentDocument = ''; const lines = text.split('\n')
TextBegin ==
    /\ tpc = "input"
    /\ tlines' = SplitLines(tin.text)
    /\ tpc' = "loop"
    /\ UNCHANGED <<tin, tst>>
    /\ UNCHANGED besideText

\* One iteration of for (const line of lines).
TextTake ==
    /\ tpc = "loop"
    /\ tlines # <<>>
    /\ tst' = TextStep(tin.userName, tst, Head(tlines), TextBufferLimit)
    /\ tlines' = Tail(tlines)
    /\ UNCHANGED <<tpc, tin>>
    /\ UNCHANGED besideText

\* The loop is over: the remaining content is yielded and the generator ends.
TextEnd ==
    /\ tpc = "loop"
    /\ tlines = <<>>
    /\ tst' = [tst EXCEPT !.yielded = TextRemainder(tin.userName, tst)]
    /\ tpc' = "done"
    /\ UNCHANGED <<tin, tlines>>
    /\ UNCHANGED besideText

TextNext == TextBegin \/ TextTake \/ TextEnd

SpecText == TextInit /\ [][TextNext]_vars

\* ------------------------------------------ claims on the text generator
\* The stepwise run yields what generateDocumentsFromText returns.
TextRunAgrees ==
    tpc = "done" => tst.yielded = generateDocumentsFromText(tin.text, tin.userName)

\* docs are the documents the claim says a flush of buffer yields for the
\* label userName: one for each chunk of the chunker, in order, the content
\* being the chunk as it is and the source the label.
FlushedAs(docs, buffer, userName) ==
    LET chunks == splitTextIntoDocuments(buffer, 1000, 250)
    IN /\ Len(docs) = Len(chunks)
       /\ \A i \in 1..Len(docs) :
             /\ DOMAIN docs[i] = {"content", "source"}
             /\ docs[i].content = chunks[i]
             /\ docs[i].source = userName

\* The documents yielded by the step, those after the ones yielded before.
YieldedByStep == SubSeq(tst'.yielded, Len(tst.yielded) + 1, Len(tst'.yielded))

\* The text has a character that is no whitespace (a line that is not blank).
NotBlank(s) == \E i \in 1..Len(s) : s[i] \notin Whitespace

\* C33: in generateDocumentsFromText a line that is not blank is appended,
\* trimmed, to the buffer when buffer length plus line length is at most
\* 2000; otherwise the buffer goes to the chunker first and the buffer
\* restarts with that line alone.  Every document yielded has the label as
\* its source and a chunk, without heading prefix, as its content; a blank
\* line changes nothing; and what remains in the buffer is flushed at the end.
C33_TextBuffering ==
    [][/\ SubSeq(tst'.yielded, 1, Len(tst.yielded)) = tst.yielded
       /\ (tpc = "loop" /\ tlines # <<>>) =>
             LET line == TrimStr(Head(tlines))
                 buffer == tst.currentDocument
             IN IF ~NotBlank(Head(tlines))
                THEN tst' = tst
                ELSE IF Len(buffer) + Len(line) <= 2000
                     THEN /\ tst'.currentDocument = buffer \o line \o <<"\n">>
                          /\ YieldedByStep = <<>>
                     ELSE /\ tst'.currentDocument = line \o <<"\n">>
                          /\ FlushedAs(YieldedByStep, buffer, tin.userName)
       /\ (tpc = "loop" /\ tlines = <<>>) =>
             /\ tpc' = "done"
             /\ IF NotBlank(tst.currentDocument)
                THEN FlushedAs(YieldedByStep, TrimStr(tst.currentDocument), tin.userName)
                ELSE YieldedByStep = <<>>]_vars

\* C33 witness: a line of 1997 characters, a blank line and a line of three
\* characters: the third line found a buffer of 1998, which was flushed as
\* the two chunks of 1000 and 997 characters the chunker cuts it into, and
\* is now alone in the buffer.
C33_Witness ==
    /\ tpc = "loop" /\ tlines = <<>>
    /\ tin.text = JoinLines(<<LongLine, <<" ">>, <<"b", " ", "c">>>>)
    /\ tst.currentDocument = <<"b", " ", "c", "\n">>
    /\ tst.yielded = <<[content |-> SubSeq(LongLine, 1, 1000), source |-> UserNameOf("u1")],
                       [content |-> SubSeq(LongLine, 1001, 1997), source |-> UserNameOf("u1")]>>

\* ------------------------------------------- fetchWebContent alone, SpecFetch
\* What one axios.get(url) may answer: a body, or a failure with a message.
FetchBodies == {"body1", "body2"}
FetchMessages == {"timeout", "refused"}
RetryDelays == {0, 1000}

\* Mutant of StillTrying: the loop gives up one attempt early.
StillTrying_OneLess(att, maxRetries) == att + 1 < maxRetries

\* while (attempt < maxRetries)
StillTrying(att, maxRetries) == att < maxRetries

\* Mutant of Exhausted: the last failure is not recognised as the last.
Exhausted_OffByOne(att, maxRetries) == att > maxRetries

\* if (attempt >= maxRetries)
Exhausted(att, maxRetries) == att >= maxRetries

\* new Error(`Failed to fetch ${url} after ${maxRetries} attempts: ${error.message}`)
FetchError(url, maxRetries, message) ==
    [kind |-> "error", url |-> url, attempts |-> maxRetries, message |-> message]

\* return response.data
FetchBody(data) == [kind |-> "body", data |-> data]

\* The function ends without a return statement.
FetchUndefined == [kind |-> "undefined"]

FetchInit ==
    /\ fpc = "input"
    /\ fmax \in 0..MaxFetchRetries
    /\ fdelay \in RetryDelays
    /\ fattempt = 0
    /\ fresult = NoResult
    /\ fgets = 0
    /\ fwaited = <<>>
    /\ ffailed = <<>>
    /\ store = {}
    /\ IngestIdle
    /\ ChunkIdle
    /\ UrlIdle
    /\ TextIdle
    /\ ChatIdle
    /\ ReaderIdle
    /\ AddIdle

\* The test of the while loop, at the call and after every wait.
EnterLoop ==
    IF StillTrying(fattempt', fmax)
    THEN fpc' = "try" /\ UNCHANGED fresult
    ELSE fpc' = "returned" /\ fresult' = FetchUndefined

\* let attempt = 0, and the first test of the loop.
FetchCall ==
    /\ fpc = "input"
    /\ fattempt' = 0
    /\ EnterLoop
    /\ UNCHANGED <<fmax, fdelay, fgets, fwaited, ffailed>>
    /\ UNCHANGED besideFetch

\* axios.get(url) answers: return response.data.
GetSucceeds ==
    /\ fpc = "try"
    /\ fgets' = fgets + 1
    /\ \E data \in FetchBodies : fresult' = FetchBody(data)
    /\ fpc' = "returned"
    /\ UNCHANGED <<fmax, fdelay, fattempt, fwaited, ffailed>>
    /\ UNCHANGED besideFetch

\* axios.get(url) fails: attempt++, then the throw when the attempts are
\* exhausted, else the wait begins.
GetFails ==
    /\ fpc = "try"
    /\ fgets' = fgets + 1
    /\ fattempt' = fattempt + 1
    /\ \E message \in FetchMessages :
          /\ ffailed' = Append(ffailed, message)
          /\ IF Exhausted(fattempt + 1, fmax)
             THEN fpc' = "thrown" /\ fresult' = FetchError(UrlText, fmax, message)
             ELSE fpc' = "wait" /\ UNCHANGED fresult
    /\ UNCHANGED <<fmax, fdelay, fwaited>>
    /\ UNCHANGED besideFetch

\* The timer of retryDelay fires, and the loop is tested again.
WaitEnds ==
    /\ fpc = "wait"
    /\ fwaited' = Append(fwaited, fdelay)
    /\ UNCHANGED fattempt
    /\ EnterLoop
    /\ UNCHANGED <<fmax, fdelay, fgets, ffailed>>
    /\ UNCHANGED besideFetch

FetchNext == FetchCall \/ GetSucceeds \/ GetFails \/ WaitEnds

SpecFetch == FetchInit /\ [][FetchNext]_vars

\* ------------------------------------------------ claims on the fetcher
\* C14: with maxRetries >= 1, when attempts 1..k-1 failed and attempt k
\* answered (k <= maxRetries), the call returns the body of attempt k after
\* exactly k attempts and k-1 waits of retryDelay each, and the call has
\* ended: no attempt follows.
C14_ReturnsAfterKAttempts ==
    [][/\ (fmax >= 1 /\ fpc = "try" /\ fpc' = "returned") =>
             LET k == Len(ffailed) + 1
             IN /\ k <= fmax
                /\ fgets' = k
                /\ fresult'.kind = "body"
                /\ fresult'.data \in FetchBodies
                /\ fwaited' = [i \in 1..(k - 1) |-> fdelay]
                /\ ffailed' = ffailed
       /\ (fmax >= 1 /\ fpc' = "returned") => fpc = "try"
       /\ fpc = "returned" => UNCHANGED fetchVars]_vars

\* C14 witness: two failures, then the third attempt of maxRetries = 3
\* answered and its body was returned.
C14_Witness ==
    /\ fpc = "returned"
    /\ fmax = 3
    /\ Len(ffailed) = 2
    /\ fgets = 3
    /\ fresult.kind = "body"
    /\ Len(fwaited) = 2

\* C15: with maxRetries >= 1, when every attempt fails the call makes exactly
\* maxRetries attempts, does not wait after the last one, throws the error
\* that carries the url, maxRetries and the message of the last failure, and
\* returns nothing; no call makes more than maxRetries attempts.
C15_ThrowsAfterMaxRetries ==
    fmax >= 1 =>
        /\ fgets <= fmax
        /\ (fpc \in {"returned", "thrown"} /\ Len(ffailed) = fgets) =>
              /\ fpc = "thrown"
              /\ fgets = fmax
              /\ Len(fwaited) = fmax - 1
              /\ fresult = [kind |-> "error", url |-> UrlText, attempts |-> fmax,
                             message |-> ffailed[Len(ffailed)]]
        /\ Len(fwaited) < fmax
        /\ fpc = "wait" => Len(ffailed) < fmax
        /\ fpc = "thrown" => Len(ffailed) = fgets

\* C15 witness: three attempts of maxRetries = 3 failed, the last with a
\* message other than the first, and the error was thrown.
C15_Witness ==
    /\ fpc = "thrown"
    /\ fmax = 3
    /\ fgets = 3
    /\ Len(fwaited) = 2
    /\ ffailed[1] # ffailed[3]
    /\ fresult.message = ffailed[3]


\* ------------------------------------------------- the chat route, SpecChat
\* match_threshold: 0.78, in hundredths; match_count: 5
MatchThreshold == 78
MatchCount == 5

Null == "null"

\* Rows of the documents table with their similarity to the query, in
\* hundredths; no two rows are equally similar.
ChatRecords ==
    {[id |-> 1, by |-> "u1", similarity |-> 95], [id |-> 2, by |-> "u2", similarity |-> 91],
     [id |-> 3, by |-> "u1", similarity |-> 90], [id |-> 4, by |-> "u2", similarity |-> 88],
     [id |-> 5, by |-> "u1", similarity |-> 85], [id |-> 6, by |-> "u2", similarity |-> 79],
     [id |-> 7, by |-> "u1", similarity |-> 78]}

ChatBodies ==
    {[malformed |-> FALSE, useOnlyMyContext |-> b, userId |-> u] : b \in BOOLEAN, u \in Users}
    \cup {NoChatBody}

\* The rows of S by descending similarity.
RECURSIVE BySimilarity(_)
BySimilarity(S) ==
    IF S = {} THEN <<>>
    ELSE LET top == CHOOSE x \in S : \A y \in S : y.similarity <= x.similarity
         IN <<top>> \o BySimilarity(S \ {top})

\* match_documents(query_embedding, match_threshold, match_count, user_id):
\* the rows more similar than the threshold, of the owner user_id when it
\* is not null, the most similar first, match_count of them at most.
MatchDocuments(table, args) ==
    LET rows == BySimilarity({row \in table :
                                 /\ row.similarity > args.match_threshold
                                 /\ args.user_id = Null \/ row.by = args.user_id})
    IN SubSeq(rows, 1, Min({Len(rows), args.match_count}))

\* Mutant of OwnerFilter: the query is never restricted to the owner.
OwnerFilter_Never(useOnlyMyContext, userId) == Null

\* user_id: useOnlyMyContext ? userId : null
OwnerFilter(useOnlyMyContext, userId) == IF useOnlyMyContext THEN userId ELSE Null

\* The arguments of supabase.rpc("match_documents", ...).
RpcArguments(body) ==
    [match_threshold |-> MatchThreshold, match_count |-> MatchCount,
     user_id |-> OwnerFilter(body.useOnlyMyContext, body.userId)]

\* The chunks a completion stream delivers: a delta with text, a delta with
\* the empty text, a chunk without delta content.
Deltas ==
    {[present |-> TRUE, content |-> <<"a">>], [present |-> TRUE, content |-> <<"b", "c">>],
     [present |-> TRUE, content |-> <<>>], [present |-> FALSE, content |-> <<>>]}

\* Mutant of ContextEvents: no context line for an empty match set.
ContextEvents_SkipsEmpty(docs) ==
    IF docs = <<>> THEN <<>> ELSE <<[type |-> "context", documents |-> docs]>>

\* Mutant of ContextEvents: the rows are listed least similar first.
ContextEvents_Reversed(docs) ==
    <<[type |-> "context", documents |-> [i \in 1..Len(docs) |-> docs[Len(docs) + 1 - i]]]>>

\* controller.enqueue of { type: 'context', documents }
ContextEvents(docs) == <<[type |-> "context", documents |-> docs]>>

\* Mutant of ContentEvents: a delta of one character is dropped.
ContentEvents_DropsShort(chunk) ==
    IF chunk.present /\ Len(chunk.content) > 1
    THEN <<[type |-> "content", content |-> chunk.content]>> ELSE <<>>

\* const content = chunk.choices[0]?.delta?.content; if (content) enqueue
\* { type: 'content', content }
ContentEvents(chunk) ==
    IF chunk.present /\ chunk.content # <<>>
    THEN <<[type |-> "content", content |-> chunk.content]>> ELSE <<>>

\* Mutant of ChatCatch: the stream is closed without the error line.
ChatCatch_Silent(message) ==
    /\ chatClosed' = chatClosed + 1
    /\ chatPc' = "done"
    /\ UNCHANGED chatEvents

\* catch: enqueue { error: error.message }; finally: controller.close()
ChatCatch(message) ==
    /\ chatEvents' = Append(chatEvents, [type |-> "error", message |-> message])
    /\ chatClosed' = chatClosed + 1
    /\ chatPc' = "done"

\* A call to a service, made when n lines were enqueued.
Call(service) == [service |-> service, enqueued |-> Len(chatEvents)]

ChatInit ==
    /\ chatPc = "input"
    /\ chatReq \in ChatBodies
    /\ chatTable \in SUBSET ChatRecords
    /\ rpcArgs = NoArgs
    /\ chatDocuments = <<>>
    /\ chatEvents = <<>>
    /\ chatClosed = 0
    /\ deltas = <<>>
    /\ calls = <<>>
    /\ store = {}
    /\ IngestIdle
    /\ ChunkIdle
    /\ UrlIdle
    /\ TextIdle
    /\ FetchIdle
    /\ ReaderIdle
    /\ AddIdle

\* const { messages, query, useOnlyMyContext, userId, language } = await
\* req.json(), then getEmbedding(query) is called.
ChatParse ==
    /\ chatPc = "input"
    /\ IF chatReq.malformed
       THEN ChatCatch("Unexpected token") /\ UNCHANGED calls
       ELSE /\ chatPc' = "embed"
            /\ calls' = Append(calls, Call("embedding"))
            /\ UNCHANGED <<chatEvents, chatClosed>>
    /\ UNCHANGED <<chatReq, chatTable, rpcArgs, chatDocuments, deltas>>
    /\ UNCHANGED besideChat

\* getEmbedding returns the vector and supabase.rpc is called.
EmbedAnswers ==
    /\ chatPc = "embed"
    /\ rpcArgs' = RpcArguments(chatReq)
    /\ calls' = Append(calls, Call("match_documents"))
    /\ chatPc' = "rpc"
    /\ UNCHANGED <<chatReq, chatTable, chatDocuments, chatEvents, chatClosed, deltas>>
    /\ UNCHANGED besideChat

\* getEmbedding throws: the call failed or answered without a vector.
EmbedRejects ==
    /\ chatPc = "embed"
    /\ \E message \in {"Invalid embedding response", "embedding failed"} : ChatCatch(message)
    /\ UNCHANGED <<chatReq, chatTable, rpcArgs, chatDocuments, deltas, calls>>
    /\ UNCHANGED besideChat

\* The rpc answers with rows: the context line is enqueued and
\* openai.chat.completions.create is called.
RpcAnswers ==
    /\ chatPc = "rpc"
    /\ chatDocuments' = MatchDocuments(chatTable, rpcArgs)
    /\ chatEvents' = chatEvents \o ContextEvents(chatDocuments')
    /\ calls' = Append(calls, [service |-> "completion", enqueued |-> Len(chatEvents')])
    /\ chatPc' = "open"
    /\ UNCHANGED <<chatReq, chatTable, rpcArgs, chatClosed, deltas>>
    /\ UNCHANGED besideChat

\* The rpc answers with an error: throw new Error("Failed to retrieve relevant documents").
RpcErrors ==
    /\ chatPc = "rpc"
    /\ ChatCatch("Failed to retrieve relevant documents")
    /\ UNCHANGED <<chatReq, chatTable, rpcArgs, chatDocuments, deltas, calls>>
    /\ UNCHANGED besideChat

\* completions.create answers with the completion stream.
OpenAnswers ==
    /\ chatPc = "open"
    /\ chatPc' = "read"
    /\ UNCHANGED <<chatReq, chatTable, rpcArgs, chatDocuments, chatEvents, chatClosed,
                   deltas, calls>>
    /\ UNCHANGED besideChat

\* completions.create rejects.
OpenRejects ==
    /\ chatPc = "open"
    /\ ChatCatch("completion failed")
    /\ UNCHANGED <<chatReq, chatTable, rpcArgs, chatDocuments, deltas, calls>>
    /\ UNCHANGED besideChat

\* One iteration of for await (const chunk of completionStream).
ReadChunk ==
    /\ chatPc = "read"
    /\ Len(deltas) < MaxDeltas
    /\ \E chunk \in Deltas :
          /\ deltas' = Append(deltas, chunk)
          /\ chatEvents' = chatEvents \o ContentEvents(chunk)
    /\ UNCHANGED <<chatPc, chatReq, chatTable, rpcArgs, chatDocuments, chatClosed, calls>>
    /\ UNCHANGED besideChat

\* The completion stream ends: finally controller.close().
ReadEnds ==
    /\ chatPc = "read"
    /\ chatClosed' = chatClosed + 1
    /\ chatPc' = "done"
    /\ UNCHANGED <<chatReq, chatTable, rpcArgs, chatDocuments, chatEvents, deltas, calls>>
    /\ UNCHANGED besideChat

\* Reading the completion stream throws.
ReadRejects ==
    /\ chatPc = "read"
    /\ ChatCatch("stream failed")
    /\ UNCHANGED <<chatReq, chatTable, rpcArgs, chatDocuments, deltas, calls>>
    /\ UNCHANGED besideChat

ChatNext ==
    \/ ChatParse
    \/ EmbedAnswers
    \/ EmbedRejects
    \/ RpcAnswers
    \/ RpcErrors
    \/ OpenAnswers
    \/ OpenRejects
    \/ ReadChunk
    \/ ReadEnds
    \/ ReadRejects

SpecChat == ChatInit /\ [][ChatNext]_vars

\* ------------------------------------------------ claims on the chat route
\* The indices of the lines of the stream that are of type t.
LinesOfType(t) == {i \in 1..Len(chatEvents) : chatEvents[i].type = t}

\* text1 + text2 + ... of a sequence of texts.
RECURSIVE Concat(_)
Concat(texts) == IF texts = <<>> THEN <<>> ELSE Head(texts) \o Concat(Tail(texts))

\* C16 (as claimed): the stream of every chat request, also of one whose
\* embedding or Vector Store query fails, is exactly one context line, then
\* content lines, then at most one error line.
C16_ChatStreamShape ==
    chatPc = "done" =>
        /\ Cardinality(LinesOfType("context")) = 1
        /\ chatEvents[1].type = "context"
        /\ Cardinality(LinesOfType("error")) <= 1
        /\ \A i \in LinesOfType("error") : i = Len(chatEvents)
        /\ \A i \in 2..Len(chatEvents) : chatEvents[i].type \in {"content", "error"}

\* C17: no content line comes before the context line, the Completion
\* Service is called only once the context line is enqueued, and the
\* context line is enqueued whenever the query answered, with the rows it
\* answered, also when there are none.
C17_ContextFirst ==
    /\ \A i \in LinesOfType("content") : \E j \in 1..(i - 1) : chatEvents[j].type = "context"
    /\ \A c \in 1..Len(calls) :
           calls[c].service = "completion" =>
               /\ calls[c].enqueued = 1
               /\ chatEvents[1].type = "context"
    /\ chatPc \in {"open", "read"} =>
           /\ chatEvents[1] = [type |-> "context", documents |-> chatDocuments]
           /\ \E c \in 1..Len(calls) : calls[c].service = "completion"
    /\ LinesOfType("context") # {} =>
           chatEvents[1] = [type |-> "context", documents |-> chatDocuments]

\* C17 witness: a request whose match set was empty got its context line
\* and then content lines.
C17_Witness ==
    /\ chatPc = "done"
    /\ Len(chatEvents) >= 3
    /\ chatEvents[1] = [type |-> "context", documents |-> <<>>]
    /\ chatTable # {}
    /\ chatEvents[Len(chatEvents)].type = "content"

\* The payloads of the content lines, in the order of emission.
ContentPayloads ==
    LET lines == SelectSeq(chatEvents, LAMBDA e : e.type = "content")
    IN [i \in 1..Len(lines) |-> lines[i].content]

\* The texts of the chunks delivered, an absent delta counting as empty.
DeltaTexts == [i \in 1..Len(deltas) |-> deltas[i].content]

\* C18: the payloads of the content lines are, in order, the non-empty
\* deltas the Completion Service delivered, so their concatenation is the
\* concatenation of the deltas.
C18_ContentIsDeltas ==
    /\ Concat(ContentPayloads) = Concat(DeltaTexts)
    /\ ContentPayloads = SelectSeq(DeltaTexts, LAMBDA t : t # <<>>)

\* C18 witness: three chunks were delivered, a text, an empty or absent one
\* and another text, and two content lines were emitted.
C18_Witness ==
    /\ Len(deltas) = 3
    /\ deltas[1].content # <<>>
    /\ deltas[2].content = <<>>
    /\ deltas[3].content # <<>>
    /\ deltas[3].content # deltas[1].content
    /\ Len(ContentPayloads) = 2

\* The step is the failure of the step the handler was at.
StepFails ==
    \/ chatPc = "input" /\ chatReq.malformed
    \/ chatPc \in {"embed", "rpc", "open", "read"} /\ chatPc' = "done" /\ calls' = calls
          /\ ~(chatPc = "read" /\ chatEvents' = chatEvents)

\* C19: the failure of a step enqueues one error line after the lines
\* already there, closes the stream and runs no later step; an error line
\* is the last line of a closed stream, and a request whose embedding or
\* query failed never calls the Completion Service.
C19_FailureEndsStream ==
    [][/\ StepFails =>
             /\ Len(chatEvents') = Len(chatEvents) + 1
             /\ SubSeq(chatEvents', 1, Len(chatEvents)) = chatEvents
             /\ chatEvents'[Len(chatEvents')].type = "error"
             /\ chatClosed' = 1
             /\ chatPc' = "done"
             /\ calls' = calls
             /\ chatPc \in {"input", "embed", "rpc"} =>
                   \A c \in 1..Len(calls) : calls[c].service # "completion"
       /\ \A i \in 1..Len(chatEvents) :
             chatEvents[i].type = "error" =>
                 /\ i = Len(chatEvents)
                 /\ chatPc = "done"
       /\ chatPc = "done" => (chatClosed = 1 /\ UNCHANGED chatVars)
       /\ chatPc # "done" => chatClosed = 0]_vars

\* C19 witness: the stream failed while it was read, after the context line
\* and a content line.
C19_Witness ==
    /\ chatPc = "done"
    /\ Len(chatEvents) >= 3
    /\ chatEvents[1].type = "context"
    /\ chatEvents[2].type = "content"
    /\ chatEvents[Len(chatEvents)].type = "error"
    /\ chatEvents[Len(chatEvents)].message = "stream failed"

\* C20: match_documents is called with match_threshold 0.78, match_count 5
\* and user_id = userId when useOnlyMyContext is true, null otherwise; and
\* the context line of a request with useOnlyMyContext = true holds no row
\* of another owner.
C20_OwnerScoped ==
    /\ chatPc \in {"rpc", "open", "read"} =>
          /\ rpcArgs.match_threshold = 78
          /\ rpcArgs.match_count = 5
          /\ rpcArgs.user_id = IF chatReq.useOnlyMyContext THEN chatReq.userId ELSE "null"
    /\ (chatReq.useOnlyMyContext /\ LinesOfType("context") # {}) =>
          \A i \in 1..Len(chatEvents[1].documents) :
              chatEvents[1].documents[i].by = chatReq.userId

\* C20 witness: a request with useOnlyMyContext = true got rows of its owner
\* while the table held more similar rows of another owner.
C20_Witness ==
    /\ chatReq.useOnlyMyContext
    /\ LinesOfType("context") # {}
    /\ Len(chatEvents[1].documents) >= 2
    /\ \E row \in chatTable :
          /\ row.by # chatReq.userId
          /\ row.similarity > chatEvents[1].documents[1].similarity

\* The similarities of the rows, in their order.
Similarities(rows) == [i \in 1..Len(rows) |-> rows[i].similarity]

\* C21: the context line lists the rows the query answered, each once and
\* in the order answered, none left out and none added; rows of
\* similarities 0.91, 0.85, 0.79 are listed in that order.
C21_ContextKeepsOrder ==
    \A i \in LinesOfType("context") :
        LET listed == chatEvents[i].documents
        IN /\ Len(listed) = Len(chatDocuments)
           /\ \A k \in 1..Len(listed) : listed[k] = chatDocuments[k]
           /\ \A k \in 1..(Len(listed) - 1) : listed[k].similarity > listed[k + 1].similarity
           /\ {row.similarity : row \in chatTable} = {91, 85, 79} /\ rpcArgs.user_id = "null"
                 => Similarities(listed) = <<91, 85, 79>>

\* C21 witness: the query answered the rows of similarities 0.91, 0.85 and
\* 0.79 and the context line is enqueued.
C21_Witness ==
    /\ Similarities(chatDocuments) = <<91, 85, 79>>
    /\ LinesOfType("context") = {1}
    /\ Len(chatEvents[1].documents) = 3

\* ------------------------------- an ingestion beside a chat, SpecStore
\* One ingestion request over a table that holds records and one chat
\* request of u1, their steps interleaved; the chat's query sees the table
\* as chatTable.
StoreInit ==
    /\ store = EarlierRecords
    /\ IngestIdle
    /\ chatPc = "input"
    /\ chatReq = [malformed |-> FALSE, useOnlyMyContext |-> TRUE, userId |-> "u1"]
    /\ chatTable = ChatRecords
    /\ rpcArgs = NoArgs
    /\ chatDocuments = <<>>
    /\ chatEvents = <<>>
    /\ chatClosed = 0
    /\ deltas = <<>>
    /\ calls = <<>>
    /\ ChunkIdle
    /\ UrlIdle
    /\ TextIdle
    /\ FetchIdle
    /\ ReaderIdle
    /\ AddIdle

NextStore ==
    \/ Start("r1")
    \/ StartMalformed("r1")
    \/ SelectExisting("r1")
    \/ SelectFails("r1")
    \/ DeleteExisting("r1")
    \/ DeleteFails("r1")
    \/ FetchSucceeds("r1")
    \/ FetchFails("r1")
    \/ CountText("r1")
    \/ RestartText("r1")
    \/ EmbeddingSucceeds("r1")
    \/ EmbeddingFails("r1")
    \/ InsertDocument("r1")
    \/ InsertFails("r1")
    \/ Finish("r1")
    \/ CatchError("r1")
    \/ ChatParse
    \/ EmbedAnswers
    \/ EmbedRejects
    \/ RpcAnswers
    \/ RpcErrors
    \/ OpenAnswers
    \/ OpenRejects
    \/ ReadChunk
    \/ ReadEnds
    \/ ReadRejects

SpecStore == StoreInit /\ [][NextStore]_vars

\* ------------------------------------------------- claims on the table
\* The step is a step of the chat request.
ChatStep == chatPc' # chatPc \/ chatEvents' # chatEvents \/ deltas' # deltas

\* The step changes the table by one insert of a record with a new id, made
\* by a request that is at its insert.
OneInsert ==
    /\ store \subseteq store'
    /\ Cardinality(store' \ store) = 1
    /\ \A new \in store' \ store : \A old \in store : old.id # new.id
    /\ \E r \in Requests : pc[r] = "insert" /\ pc'[r] # "insert"

\* The step changes the table by the deletion of a URL ingestion: the
\* records it selected as stored for its url and user, and no other.
BulkDeletion ==
    /\ store' \subseteq store
    /\ \E r \in Requests :
          /\ UrlRun(r) /\ pc[r] = "delete" /\ pc'[r] # "delete"
          /\ store \ store' = {rec \in store : rec.id \in existing[r]}

\* C34: a stored record never changes while it exists: the table changes
\* only by the insert of a new record and by the bulk deletion of a URL
\* ingestion, and no step of a chat request changes it.
C34_RecordsNeverUpdated ==
    [][/\ \A rec \in store : (\E kept \in store' : kept.id = rec.id) => rec \in store'
       /\ \A a \in store' : \A b \in store' : a.id = b.id => a = b
       /\ store' # store => OneInsert \/ BulkDeletion
       /\ ChatStep => store' = store
       /\ chatTable' = chatTable]_vars

\* C34 witness: a URL ingestion of u1 has deleted the stale record and
\* inserted its own, the records of the other sources and owners are as
\* they were, and the chat request has run to its end beside it.
C34_Witness ==
    /\ pc["r1"] = "done" /\ UrlRun("r1") /\ req["r1"].userId = "u1"
    /\ \A rec \in store : rec.id # <<"r0", 1>>
    /\ EarlierRecords \ store = {rec \in EarlierRecords : rec.id = <<"r0", 1>>}
    /\ RecordsFrom(store, "r1") # {}
    /\ chatPc = "done"
    /\ Len(chatEvents) >= 2
    /\ chatTable = ChatRecords

\* ------------------------------ the page's chat reader, SpecReader
\* sendMessage, from response.body.getReader() to the end of its while
\* loop, on the body of one response of the chat route.  The body is the
\* text of the lines the route enqueued; the transport delivers it in
\* pieces, which need not end where a line ends.
DQ == "\""
BS == "\\"
NL == "\n"
Digits == {"0", "1", "2", "3", "4", "5", "6", "7", "8", "9"}

W_type == <<"t", "y", "p", "e">>
W_content == <<"c", "o", "n", "t", "e", "n", "t">>
W_context == <<"c", "o", "n", "t", "e", "x", "t">>
W_documents == <<"d", "o", "c", "u", "m", "e", "n", "t", "s">>
W_error == <<"e", "r", "r", "o", "r">>
W_id == <<"i", "d">>
W_undefined == <<"u", "n", "d", "e", "f", "i", "n", "e", "d">>
W_null == <<"n", "u", "l", "l">>
W_percentage == <<"p", "e", "r", "c", "e", "n", "t", "a", "g", "e">>

\* JSON.stringify of a string: in quotes, with the quote, the backslash
\* and the newline escaped.
RECURSIVE EscapeJSON(_)
EscapeJSON(str) ==
    IF str = <<>> THEN <<>>
    ELSE (IF Head(str) = DQ THEN <<BS, DQ>>
          ELSE IF Head(str) = BS THEN <<BS, BS>>
          ELSE IF Head(str) = NL THEN <<BS, "n">>
          ELSE <<Head(str)>>) \o EscapeJSON(Tail(str))

StringifyString(str) == <<DQ>> \o EscapeJSON(str) \o <<DQ>>

\* "name":value inside an object.
Member(name, valueText) == StringifyString(name) \o <<":">> \o valueText

\* JSON.stringify of a row of documents: [id, content], id of one digit.
StringifyRow(row) ==
    <<"{">> \o Member(W_id, <<row.id>>) \o <<",">>
            \o Member(W_content, StringifyString(row.content)) \o <<"}">>

\* JSON.stringify(event), the text of a line without its newline:
\* { type: 'context', documents }, { type: 'content', content } and
\* { error: error.message }.
StringifyEvent(e) ==
    IF e.type = "context"
    THEN <<"{">> \o Member(W_type, StringifyString(W_context)) \o <<",">>
                 \o Member(W_documents,
                           <<"[">> \o Join([i \in 1..Len(e.documents) |->
                                               StringifyRow(e.documents[i])], <<",">>)
                                   \o <<"]">>)
                 \o <<"}">>
    ELSE IF e.type = "content"
    THEN <<"{">> \o Member(W_type, StringifyString(W_content)) \o <<",">>
                 \o Member(W_content, StringifyString(e.content)) \o <<"}">>
    ELSE <<"{">> \o Member(W_error, StringifyString(e.message)) \o <<"}">>

\* The response body: every line followed by '\n'.
BodyOf(lines) == Concat([i \in 1..Len(lines) |-> StringifyEvent(lines[i]) \o <<NL>>])

\* JSON.parse, for the texts the pieces of such a body can be: strings
\* with the escapes above, numbers of digits, null, arrays and objects,
\* with no whitespace between the tokens.  A parse answers [ok, val, next]: val
\* is the value and next the place after it.
NoParse == [ok |-> FALSE]

RECURSIVE ScanString(_, _, _)
ScanString(s, i, acc) ==
    IF i > Len(s) THEN NoParse
    ELSE IF s[i] = DQ THEN [ok |-> TRUE, val |-> [k |-> "string", str |-> acc], next |-> i + 1]
    ELSE IF s[i] = BS
         THEN IF i + 1 > Len(s) THEN NoParse
              ELSE IF s[i + 1] \in {DQ, BS, "/"} THEN ScanString(s, i + 2, Append(acc, s[i + 1]))
              ELSE IF s[i + 1] = "n" THEN ScanString(s, i + 2, Append(acc, NL))
              ELSE NoParse
    ELSE ScanString(s, i + 1, Append(acc, s[i]))

RECURSIVE ScanNumber(_, _, _)
ScanNumber(s, i, acc) ==
    IF i <= Len(s) /\ s[i] \in Digits
    THEN IF acc = <<"0">> THEN NoParse ELSE ScanNumber(s, i + 1, Append(acc, s[i]))
    ELSE [ok |-> TRUE, val |-> [k |-> "number", str |-> acc], next |-> i]

RECURSIVE ParseValue(_, _)
RECURSIVE ParseMembers(_, _, _)
RECURSIVE ParseElements(_, _, _)

ParseValue(s, i) ==
    IF i > Len(s) THEN NoParse
    ELSE IF s[i] = DQ THEN ScanString(s, i + 1, <<>>)
    ELSE IF s[i] \in Digits THEN ScanNumber(s, i, <<>>)
    ELSE IF s[i] = "n"
         THEN IF i + 3 <= Len(s) /\ SubSeq(s, i, i + 3) = W_null
              THEN [ok |-> TRUE, val |-> [k |-> "null"], next |-> i + 4]
              ELSE NoParse
    ELSE IF s[i] = "{"
         THEN IF i + 1 <= Len(s) /\ s[i + 1] = "}"
              THEN [ok |-> TRUE, val |-> [k |-> "object", members |-> <<>>], next |-> i + 2]
              ELSE ParseMembers(s, i + 1, <<>>)
    ELSE IF s[i] = "["
         THEN IF i + 1 <= Len(s) /\ s[i + 1] = "]"
              THEN [ok |-> TRUE, val |-> EmptyArray, next |-> i + 2]
              ELSE ParseElements(s, i + 1, <<>>)
    ELSE NoParse

ParseMembers(s, i, acc) ==
    IF i > Len(s) \/ s[i] # DQ THEN NoParse
    ELSE LET name == ScanString(s, i + 1, <<>>)
         IN IF ~name.ok THEN NoParse
            ELSE IF name.next > Len(s) \/ s[name.next] # ":" THEN NoParse
            ELSE LET member == ParseValue(s, name.next + 1)
                 IN IF ~member.ok \/ member.next > Len(s) THEN NoParse
                    ELSE LET all == Append(acc, [key |-> name.val.str, val |-> member.val])
                         IN IF s[member.next] = ","
                            THEN ParseMembers(s, member.next + 1, all)
                            ELSE IF s[member.next] = "}"
                            THEN [ok |-> TRUE, val |-> [k |-> "object", members |-> all],
                                  next |-> member.next + 1]
                            ELSE NoParse

ParseElements(s, i, acc) ==
    LET element == ParseValue(s, i)
    IN IF ~element.ok \/ element.next > Len(s) THEN NoParse
       ELSE LET items == Append(acc, element.val)
            IN IF s[element.next] = ","
               THEN ParseElements(s, element.next + 1, items)
               ELSE IF s[element.next] = "]"
               THEN [ok |-> TRUE, val |-> [k |-> "array", items |-> items],
                     next |-> element.next + 1]
               ELSE NoParse

\* JSON.parse(s): the whole of s is one value, or the parse throws.
JSONParse(s) ==
    LET whole == ParseValue(s, 1)
    IN IF whole.ok /\ whole.next = Len(s) + 1 THEN whole ELSE NoParse

Undefined == [k |-> "undefined"]

\* data[name]: the member of that name of an object (the last one of that
\* name), undefined on anything else.
Property(data, name) ==
    IF data.k # "object" THEN Undefined
    ELSE LET at == {i \in 1..Len(data.members) : data.members[i].key = name}
         IN IF at = {} THEN Undefined ELSE data.members[Max(at)].val

IsString(v, str) == v.k = "string" /\ v.str = str

\* What += adds for a value: the string itself, a number's digits,
\* 'undefined'.
AsText(v) == IF v.k \in {"string", "number"} THEN v.str ELSE W_undefined

\* chunk.split('\n').filter(Boolean)
Messages(chunk) == SelectSeq(SplitLines(chunk), LAMBDA m : m # <<>>)

\* Mutant of Piece: the piece is taken from the start of the line the
\* read begins in, as with a buffer carried between the reads.
Piece_Carried(stream, from, n) ==
    LET starts == {i \in 1..(from + 1) : i = 1 \/ stream[i - 1] = NL}
    IN SubSeq(stream, Max(starts), from + n)

\* decoder.decode(value) of a read that delivers the next n characters.
Piece(stream, from, n) == SubSeq(stream, from + 1, from + n)

\* JSON.parse of each message of one read.
RECURSIVE ParseAll(_)
ParseAll(msgs) ==
    IF msgs = <<>> THEN <<>> ELSE <<JSONParse(Head(msgs))>> \o ParseAll(Tail(msgs))

\* The body of the for loop on the messages of one read, from message i
\* on: parsed[i] is JSON.parse of message i, and updateDoc throws for the
\* messages in fails.  st is [assistantResponse, contextUsed,
\* assistantMessage].
RECURSIVE HandleMessages(_, _, _, _)
HandleMessages(parsed, i, fails, st) ==
    IF i > Len(parsed) THEN st
    ELSE LET data == parsed[i]
         IN HandleMessages(parsed, i + 1, fails,
                IF ~data.ok THEN st
                ELSE IF IsString(Property(data.val, W_type), W_context)
                THEN [st EXCEPT !.contextUsed = Property(data.val, W_documents)]
                ELSE IF IsString(Property(data.val, W_type), W_content)
                THEN LET more == st.assistantResponse
                                    \o AsText(Property(data.val, W_content))
                     IN [st EXCEPT !.assistantResponse = more,
                                   !.assistantMessage = IF i \in fails THEN @ ELSE more]
                ELSE st)

\* The rows, the deltas and the error line of the modelled responses.
ReaderRow == [id |-> "1", content |-> <<"a">>]
ReaderDeltas == <<(<<"a">>), <<DQ, NL>>>>
ReaderError == [type |-> "error", message |-> <<"x">>]

\* n content lines whose payloads are the two deltas in turn, the first
\* one being delta number first.
Replies(n, first) ==
    [j \in 1..n |-> [type |-> "content", content |-> ReaderDeltas[1 + ((first + j) % 2)]]]

\* The lines of a response of the chat route: the context line, content
\* lines, and the error line in place of them or after them when the
\* route caught an error.
ReaderResponses ==
    {ContextEvents(<<ReaderRow>>) \o Replies(n, first) : n \in 0..MaxReplyLines, first \in 1..2}
    \cup {ContextEvents(<<ReaderRow>>) \o Replies(1, 1) \o <<ReaderError>>,
          ContextEvents(<<>>) \o <<ReaderError>>,
          <<ReaderError>>}

ReaderInit ==
    /\ rdPc = "reading"
    /\ sent \in ReaderResponses
    /\ rdBody = BodyOf(sent)
    /\ rdPos = 0
    /\ assistantResponse = <<>>
    /\ contextUsed = EmptyArray
    /\ assistantMessage = <<>>
    /\ arrivedWhole = {}
    /\ store = {}
    /\ IngestIdle
    /\ ChunkIdle
    /\ UrlIdle
    /\ TextIdle
    /\ FetchIdle
    /\ ChatIdle
    /\ AddIdle

\* The places where the transport ends a read: the end of the body and
\* the places next to a brace, a colon, a newline or a backslash.  They
\* divide a line before, after and inside each of its members and
\* escapes, and set apart the strings and objects inside it.
CutMarks == {"{", "}", ":", NL, BS}
CutPlaces(stream) ==
    {p \in 1..Len(stream) :
        \/ p = Len(stream)
        \/ stream[p] \in CutMarks
        \/ stream[p + 1] \in CutMarks}

\* The places of the lines of sent in the body: the last character of
\* each, its newline not counted.
RECURSIVE LineEnds(_, _)
LineEnds(lines, from) ==
    IF lines = <<>> THEN <<>>
    ELSE LET last == from + Len(StringifyEvent(Head(lines)))
         IN <<last>> \o LineEnds(Tail(lines), last + 1)


\* One turn of the while loop: reader.read() delivers the next n
\* characters, which are decoded, split and handled.
ReaderRead ==
    /\ rdPc = "reading"
    /\ LET ends == LineEnds(sent, 0)
           FirstOf(i) == IF i = 1 THEN 1 ELSE ends[i - 1] + 2
       IN \E n \in {p - rdPos : p \in {q \in CutPlaces(rdBody) : q > rdPos}} :
          LET msgs == Messages(Piece(rdBody, rdPos, n))
              parsed == ParseAll(msgs)
              stored == {i \in 1..Len(msgs) :
                            parsed[i].ok
                            /\ IsString(Property(parsed[i].val, W_type), W_content)}
          IN \E fails \in SUBSET stored :
                LET after == HandleMessages(parsed, 1, fails,
                                 [assistantResponse |-> assistantResponse,
                                  contextUsed |-> contextUsed,
                                  assistantMessage |-> assistantMessage])
                IN /\ assistantResponse' = after.assistantResponse
                   /\ contextUsed' = after.contextUsed
                   /\ assistantMessage' = after.assistantMessage
                   /\ rdPos' = rdPos + n
                   /\ arrivedWhole' = arrivedWhole \cup
                         {i \in 1..Len(sent) :
                             /\ rdPos + 1 <= FirstOf(i)
                             /\ ends[i] <= rdPos + n}
    /\ UNCHANGED <<rdPc, sent, rdBody>>
    /\ UNCHANGED besideReader

\* reader.read() answers done at the end of the body: break.
ReaderEnd ==
    /\ rdPc = "reading"
    /\ rdPos = Len(rdBody)
    /\ rdPc' = "done"
    /\ UNCHANGED <<sent, rdBody, rdPos, assistantResponse, contextUsed, assistantMessage, arrivedWhole>>
    /\ UNCHANGED besideReader

\* reader.read() rejects: the outer catch logs and raises the alert.
ReaderFails ==
    /\ rdPc = "reading"
    /\ rdPc' = "failed"
    /\ UNCHANGED <<sent, rdBody, rdPos, assistantResponse, contextUsed, assistantMessage, arrivedWhole>>
    /\ UNCHANGED besideReader

ReaderNext == ReaderRead \/ ReaderEnd \/ ReaderFails

SpecReader == ReaderInit /\ [][ReaderNext]_vars

\* The payloads of the content lines among the first n lines of sent that
\* arrived whole, in order.
WholePayloads(n) ==
    LET at == SelectSeq([i \in 1..n |-> i],
                        LAMBDA i : i \in arrivedWhole /\ sent[i].type = "content")
    IN Concat([j \in 1..Len(at) |-> sent[at[j]].content])

\* The lines that were read to their end in more than one read.
Divided == {i \in 1..Len(sent) : LineEnds(sent, 0)[i] <= rdPos /\ i \notin arrivedWhole}

\* C36: the page's chat reader decodes and splits every read on its own.
\* assistantResponse is the concatenation, in order, of the payloads of
\* the content lines that arrived whole within one read: the payload of a
\* content line divided between reads is in neither assistantResponse nor
\* the assistant message of Firestore, which holds what assistantResponse
\* was at the last update that succeeded.
C36_OnlyWholeLines ==
    /\ assistantResponse = WholePayloads(Len(sent))
    /\ \E n \in 0..Len(sent) : assistantMessage = WholePayloads(n)

\* C36 witness: of two content lines the first was divided between two
\* reads and the second arrived whole; the stream has ended and the
\* assistant message is the second payload alone.
C36_Witness ==
    /\ rdPc = "done"
    /\ Len(sent) = 3
    /\ sent[2].type = "content" /\ sent[2].content = <<"a">>
    /\ sent[3].type = "content" /\ sent[3].content = <<DQ, NL>>
    /\ arrivedWhole = {1, 3}
    /\ Divided = {2}
    /\ assistantResponse = <<DQ, NL>>
    /\ assistantMessage = <<DQ, NL>>

\* --------------------------- the page's handleAddContext, SpecAdd
\* One call of handleAddContext.  isValidHttpUrl is imported from ./utils;
\* its answer for the text of the form is an input of the call.

\* JSON.stringify of a line of the ingestion route: { percentage } with a
\* number of digits, or null for one that is not finite, and
\* { error: error.message }.
DigitChars == <<"0", "1", "2", "3", "4", "5", "6", "7", "8", "9">>

RECURSIVE DigitsOf(_)
DigitsOf(n) ==
    IF n < 10 THEN <<DigitChars[n + 1]>> ELSE DigitsOf(n \div 10) \o <<DigitChars[(n % 10) + 1]>>

StringifyLine(e) ==
    IF e.type = "percentage"
    THEN <<"{">> \o Member(W_percentage, IF e.finite THEN DigitsOf(e.value) ELSE W_null)
                 \o <<"}">>
    ELSE <<"{">> \o Member(W_error, StringifyString(e.message)) \o <<"}">>

AddBodyOf(lines) == Concat([i \in 1..Len(lines) |-> StringifyLine(lines[i]) \o <<NL>>])

\* The lines of a response of the ingestion route: progress lines, then
\* { percentage: 100 } or the error line.
AddError == [type |-> "error", message |-> <<"x">>]
AddResponses ==
    LET half == PercentageEvent([finite |-> TRUE, value |-> 50])
        full == PercentageEvent([finite |-> TRUE, value |-> 100])
        none == PercentageEvent([finite |-> FALSE, value |-> 0])
    IN {<<full>>, <<half, full>>, <<none, full>>, <<AddError>>, <<half, AddError>>}

\* What the fetch answers: it rejects, or a response with a status that
\* is not OK, or a response with a body.
AddReplies ==
    {[kind |-> "rejected"], [kind |-> "status"]}
    \cup {[kind |-> "ok", lines |-> ls] : ls \in AddResponses}

AddInit ==
    /\ addPc = "call"
    /\ addIn \in {[text |-> t, isUrl |-> u, valid |-> v, reply |-> a] :
                     t \in {<<>>, UrlText, PlainText}, u \in BOOLEAN, v \in BOOLEAN,
                     a \in AddReplies}
    /\ newContext = addIn.text
    /\ isUrl = addIn.isUrl
    /\ isLoading = FALSE
    /\ addingContextProgress = Zero
    /\ addBody = <<>>
    /\ addPos = 0
    /\ alerts = <<>>
    /\ caught = <<>>
    /\ store = {}
    /\ IngestIdle
    /\ ChunkIdle
    /\ UrlIdle
    /\ TextIdle
    /\ FetchIdle
    /\ ChatIdle
    /\ ReaderIdle

\* An error thrown outside the per-line try: the outer catch raises the
\* alert, finally sets isLoading to false and the progress to 0.
AddThrows(place) ==
    /\ alerts' = Append(alerts, [thrownAt |-> place])
    /\ isLoading' = FALSE
    /\ addingContextProgress' = Zero
    /\ addPc' = "done"

\* The call up to the fetch: setIsLoading(true), setAddingContextProgress(0)
\* and the two checks of the form.
AddBegin ==
    /\ addPc = "call"
    /\ IF newContext = <<>> THEN AddThrows("input")
       ELSE IF isUrl /\ ~addIn.valid THEN AddThrows("url")
       ELSE /\ isLoading' = TRUE
            /\ addingContextProgress' = Zero
            /\ addPc' = "fetch"
            /\ UNCHANGED alerts
    /\ UNCHANGED <<addIn, newContext, isUrl, addBody, addPos, caught>>
    /\ UNCHANGED besideAdd

\* await fetch(...) and the check of response.ok.
AddFetch ==
    /\ addPc = "fetch"
    /\ IF addIn.reply.kind = "rejected" THEN AddThrows("fetch") /\ UNCHANGED addBody
       ELSE IF addIn.reply.kind = "status" THEN AddThrows("status") /\ UNCHANGED addBody
       ELSE /\ addBody' = AddBodyOf(addIn.reply.lines)
            /\ addPc' = "reading"
            /\ UNCHANGED <<alerts, isLoading, addingContextProgress>>
    /\ UNCHANGED <<addIn, newContext, isUrl, addPos, caught>>
    /\ UNCHANGED besideAdd

\* chunk.split('\n').filter(line => line.trim() !== '')
AddLines(chunk) == SelectSeq(SplitLines(chunk), LAMBDA line : TrimStr(line) # <<>>)

\* if (data.error): the value is neither undefined, null, '' nor 0.
Truthy(v) ==
    /\ v.k \notin {"undefined", "null"}
    /\ v.k = "string" => v.str # <<>>
    /\ v.k = "number" => v.str # <<"0">>

\* The body of the for loop on the lines of one read, from line i on.
\* st is [progress, caught].
RECURSIVE HandleLines(_, _, _)
HandleLines(parsed, i, st) ==
    IF i > Len(parsed) THEN st
    ELSE LET data == parsed[i]
         IN HandleLines(parsed, i + 1,
                IF ~data.ok THEN [st EXCEPT !.caught = Append(@, [thrownAt |-> "parse"])]
                ELSE IF data.val.k = "null"
                THEN [st EXCEPT !.caught = Append(@, [thrownAt |-> "property"])]
                ELSE IF Property(data.val, W_percentage).k # "undefined"
                THEN [st EXCEPT !.progress = Property(data.val, W_percentage)]
                ELSE IF Truthy(Property(data.val, W_error))
                THEN [st EXCEPT !.caught = Append(@, [thrownAt |-> "line"])]
                ELSE st)

\* Mutant of AddRead: the error of an { error } line is thrown outside the
\* per-line try, so that it ends the loop and raises the alert.
AddRead_Rethrows ==
    /\ addPc = "reading"
    /\ \E n \in {p - addPos : p \in {q \in CutPlaces(addBody) : q > addPos}} :
          LET after == HandleLines(ParseAll(AddLines(Piece(addBody, addPos, n))), 1,
                                   [progress |-> addingContextProgress, caught |-> <<>>])
          IN /\ addPos' = addPos + n
             /\ IF \E i \in 1..Len(after.caught) : after.caught[i].thrownAt = "line"
                THEN AddThrows("line") /\ UNCHANGED caught
                ELSE /\ addingContextProgress' = after.progress
                     /\ caught' = caught \o after.caught
                     /\ UNCHANGED <<addPc, alerts, isLoading>>
    /\ UNCHANGED <<addIn, newContext, isUrl, addBody>>
    /\ UNCHANGED besideAdd

\* One turn of the while loop: reader.read() delivers the next n
\* characters, which are decoded, split and handled line by line.
AddRead ==
    /\ addPc = "reading"
    /\ \E n \in {p - addPos : p \in {q \in CutPlaces(addBody) : q > addPos}} :
          LET after == HandleLines(ParseAll(AddLines(Piece(addBody, addPos, n))), 1,
                                   [progress |-> addingContextProgress, caught |-> caught])
          IN /\ addPos' = addPos + n
             /\ addingContextProgress' = after.progress
             /\ caught' = after.caught
    /\ UNCHANGED <<addPc, addIn, newContext, isUrl, isLoading, addBody, alerts>>
    /\ UNCHANGED besideAdd

\* reader.read() rejects.
AddReadFails ==
    /\ addPc = "reading"
    /\ AddThrows("read")
    /\ UNCHANGED <<addIn, newContext, isUrl, addBody, addPos, caught>>
    /\ UNCHANGED besideAdd

\* reader.read() answers done: break, setNewContext(""), setIsUrl(false),
\* then finally.
AddEnd ==
    /\ addPc = "reading"
    /\ addPos = Len(addBody)
    /\ newContext' = <<>>
    /\ isUrl' = FALSE
    /\ isLoading' = FALSE
    /\ addingContextProgress' = Zero
    /\ addPc' = "done"
    /\ UNCHANGED <<addIn, addBody, addPos, alerts, caught>>
    /\ UNCHANGED besideAdd

AddNext == AddBegin \/ AddFetch \/ AddRead \/ AddReadFails \/ AddEnd

SpecAdd == AddInit /\ [][AddNext]_vars

\* The per-line catch logged the error of an { error } line.
ErrorLineCaught == \E i \in 1..Len(caught) : caught[i].thrownAt = "line"

\* The form is as it was at the call.
FormKept == newContext = addIn.text /\ isUrl = addIn.isUrl

\* C37: in handleAddContext the error of an { error } line is thrown and
\* caught inside the per-line try.  It raises no alert and does not end
\* the loop: when the stream ends the text and the isUrl flag are cleared
\* as after an ingestion that succeeded.  An alert comes only from a throw
\* outside the per-line try (empty input, invalid URL, rejected fetch,
\* status that is not OK, failed read), and then the form is kept.
C37_ErrorLineOnlyLogged ==
    /\ \A i \in 1..Len(alerts) :
          alerts[i].thrownAt \in {"input", "url", "fetch", "status", "read"}
    /\ Len(alerts) <= 1
    /\ addPc = "done" =>
          /\ ~isLoading /\ addingContextProgress = Zero
          /\ alerts = <<>> => newContext = <<>> /\ ~isUrl /\ addPos = Len(addBody)
          /\ alerts # <<>> => FormKept
    /\ addPc # "done" => alerts = <<>> /\ FormKept

\* C37 witness: the call for a URL got a progress line and then the error
\* line; the per-line catch logged the error, no alert was raised, and the
\* call has ended with the form cleared.
C37_Witness ==
    /\ addPc = "done"
    /\ addIn.text = UrlText /\ addIn.isUrl
    /\ addIn.reply.kind = "ok" /\ addIn.reply.lines[Len(addIn.reply.lines)] = AddError
    /\ Len(addIn.reply.lines) = 2
    /\ ErrorLineCaught
    /\ alerts = <<>>
    /\ newContext = <<>> /\ ~isUrl


====
